---- MODULE Spec2Model ----
(***************************************************************************)
(* The name/institution pipeline of the repository: record extraction,     *)
(* canonicalisation, aggregation and display (main_stanford.py,             *)
(* main_cmu.py, main.py) and the lookups and processed-file helpers of      *)
(* gpt5_web_search.py.                                                      *)
(*                                                                         *)
(* A text is a sequence of one-character strings.  The characters outside  *)
(* ASCII that the sources use are written {en} (en dash), {em} (em dash),  *)
(* {E'}, {e'}, {a~} (accented letters).                                    *)
(***************************************************************************)
EXTENDS Integers, Sequences, FiniteSets, TLC

VARIABLES
    prog,               \* which script the behaviour runs
    pc,                 \* position in the script
    lines,              \* the input lines (a file's splitlines(), raw_lines)
    idx,                \* index of the next input line of the running loop
    records,            \* the records extracted so far (parse_processed_lines, records)
    table,              \* the emitted count table, rows <<school, count>> in display order
    counter,            \* tally_schools: the Counter, <<school, count>> in insertion order
    seen_names,         \* tally_schools: name -> canonical school
    skipped_duplicates, \* tally_schools
    skipped_missing,    \* tally_schools
    conflicts,          \* tally_schools: <<name, first, other>> tuples
    ALLOWED_DEPTS,      \* main_cmu.py: the allow-list of headings, or AllowAll for None
    current_dept,       \* main_cmu.py: the active department, or None
    df,                 \* main_cmu.py: the rows kept, <<name, inst, dept, Inst_canon>>
    per_dept,           \* main_cmu.py: rows <<dept, Inst_canon, count>> in sort_values order
    shown,              \* main_cmu.py: the sections printed, <<dept, rows <<inst, count>>>>
    update_files,       \* gpt5_web_search.py: the files of --merge-with, each its lines
    merged_lines,       \* gpt5_web_search.py: merged = merge_processed_files(...)
    unknown_names,      \* gpt5_web_search.py: names = extract_unknown_names(...)
    retry_unknowns,     \* gpt5_web_search.py: args.retry_unknowns
    chunk_size,         \* gpt5_web_search.py: args.chunk_size
    names,              \* gpt5_web_search.py: the names handed to process_names
    input_read,         \* gpt5_web_search.py: whether args.input_file has been read
    out_file,           \* gpt5_web_search.py: output_path on disk, None while untouched
    f_buffer,           \* gpt5_web_search.py: what f holds written and not yet flushed
    sent,               \* gpt5_web_search.py: the chunks handed to get_undergrad_schools
    results,            \* gpt5_web_search.py: the stripped results returned so far
    cell,               \* a raw institution cell handed to the canonicalisers
    returned,           \* script -> what its canonicaliser returned for the cell
    again               \* script -> what its canonicaliser returned for that result

commonVars == <<prog, pc, lines, idx, records, table>>
tallyVars == <<counter, seen_names, skipped_duplicates, skipped_missing, conflicts>>
cmuVars == <<ALLOWED_DEPTS, current_dept, df, per_dept, shown>>
procVars == <<retry_unknowns, chunk_size, names, input_read, out_file, f_buffer, sent, results>>
gptVars == <<update_files, merged_lines, unknown_names, procVars>>
canonVars == <<cell, returned, again>>
vars == <<commonVars, tallyVars, cmuVars, gptVars, canonVars>>

-----------------------------------------------------------------------------
(* Characters and the str methods the scripts use.                         *)

AsciiUpper == <<"A","B","C","D","E","F","G","H","I","J","K","L","M","N","O","P","Q","R","S","T","U","V","W","X","Y","Z">>
AsciiLower == <<"a","b","c","d","e","f","g","h","i","j","k","l","m","n","o","p","q","r","s","t","u","v","w","x","y","z">>
\* the cased letters of the texts, A-Z and the accented E of the alias tables
UpperAlpha == AsciiUpper \o <<"{E'}">>
LowerAlpha == AsciiLower \o <<"{e'}">>
Digits == {"0", "1", "2", "3", "4", "5", "6", "7", "8", "9"}
Whitespace == {" ", "\t", "\n"}

Range(f) == {f[i] : i \in DOMAIN f}

\* \w of the re module
WordChars == Range(UpperAlpha) \cup Range(LowerAlpha) \cup Digits \cup {"_", "{a~}"}

\* str.lower() of one character
LowerChar(c) ==
    IF c \in Range(UpperAlpha)
    THEN LowerAlpha[CHOOSE i \in DOMAIN UpperAlpha : UpperAlpha[i] = c]
    ELSE c

\* str.lower()
lower(s) == [i \in 1..Len(s) |-> LowerChar(s[i])]

RECURSIVE lstrip(_)
lstrip(s) == IF s # <<>> /\ Head(s) \in Whitespace THEN lstrip(Tail(s)) ELSE s

RECURSIVE rstrip(_)
rstrip(s) ==
    IF s # <<>> /\ s[Len(s)] \in Whitespace THEN rstrip(SubSeq(s, 1, Len(s) - 1)) ELSE s

\* str.strip()
strip(s) == rstrip(lstrip(s))

\* c in s
Contains(s, c) == \E i \in 1..Len(s) : s[i] = c

\* s.split(c, 1): the text before the first c and the text after it
split_first(s, c) ==
    LET i == CHOOSE k \in 1..Len(s) : s[k] = c /\ \A j \in 1..(k - 1) : s[j] # c
    IN  <<SubSeq(s, 1, i - 1), SubSeq(s, i + 1, Len(s))>>

\* s.split(c)[0]
split_head(s, c) == IF Contains(s, c) THEN split_first(s, c)[1] ELSE s

\* s.replace(a, b) for one-character a and b
replace_char(s, a, b) == [i \in 1..Len(s) |-> IF s[i] = a THEN b ELSE s[i]]

\* s.startswith(p)
startswith(s, p) == Len(s) >= Len(p) /\ SubSeq(s, 1, Len(p)) = p

\* the characters of the texts in code-point order
CharOrder ==
    <<"\t"," ","&","(",")",",","-",".","/","0","1","2","3","4","5","6","7","8","9",";","A","B","C","D","E","F","G","H","I","J","K","L","M","N","O","P","Q","R","S","T","U","V","W","X","Y","Z","_","a","b","c","d","e","f","g","h","i","j","k","l","m","n","o","p","q","r","s","t","u","v","w","x","y","z","|","{E'}","{a~}","{e'}","{en}","{em}">>

\* ord(c), up to the order
Ord(c) == CHOOSE i \in DOMAIN CharOrder : CharOrder[i] = c

RECURSIVE text_less(_, _)
\* a < b for two str
text_less(a, b) ==
    IF b = <<>> THEN FALSE
    ELSE IF a = <<>> THEN TRUE
    ELSE IF Head(a) # Head(b) THEN Ord(Head(a)) < Ord(Head(b))
    ELSE text_less(Tail(a), Tail(b))

-----------------------------------------------------------------------------
(* Regular expressions of the re module, as syntax trees, matched by       *)
(* backtracking in re's priority order.  A position is the number of       *)
(* characters before it (0..Len(s)).                                       *)

Lit(c) == [t |-> "lit", c |-> c]
Set(cs) == [t |-> "set", cs |-> cs]
AnyChar == [t |-> "any"]
WordB == [t |-> "wb"]
Bol == [t |-> "bol"]
Eol == [t |-> "eol"]
Cat(rs) == [t |-> "cat", rs |-> rs]
Alt(rs) == [t |-> "alt", rs |-> rs]
Opt(r) == [t |-> "opt", r |-> r]
Star(r) == [t |-> "star", r |-> r]
Plus(r) == [t |-> "plus", r |-> r]
Ahead(r) == [t |-> "ahead", r |-> r]
Str(cs) == Cat([i \in 1..Len(cs) |-> Lit(cs[i])])

Space == Set(Whitespace)

IsWordAt(s, i) == i >= 1 /\ i <= Len(s) /\ s[i] \in WordChars

RECURSIVE Ends(_, _, _, _), CatEnds(_, _, _, _, _), CatFrom(_, _, _, _, _),
          AltEnds(_, _, _, _, _), StarEnds(_, _, _, _), StarFrom(_, _, _, _)

\* The positions where a match of r that starts at position i of s can end,
\* in the order in which re tries them; ic is re.I.
Ends(r, s, i, ic) ==
    CASE r.t = "lit" ->
           IF i < Len(s) /\ (IF ic THEN LowerChar(s[i + 1]) = LowerChar(r.c)
                                   ELSE s[i + 1] = r.c)
           THEN <<i + 1>> ELSE <<>>
      [] r.t = "set" ->
           IF i < Len(s) /\ (IF ic THEN \E c \in r.cs : LowerChar(c) = LowerChar(s[i + 1])
                                   ELSE s[i + 1] \in r.cs)
           THEN <<i + 1>> ELSE <<>>
      [] r.t = "nset" ->
           IF i < Len(s) /\ s[i + 1] \notin r.cs THEN <<i + 1>> ELSE <<>>
      [] r.t = "any" -> IF i < Len(s) THEN <<i + 1>> ELSE <<>>
      [] r.t = "wb" -> IF IsWordAt(s, i) # IsWordAt(s, i + 1) THEN <<i>> ELSE <<>>
      [] r.t = "bol" -> IF i = 0 THEN <<i>> ELSE <<>>
      [] r.t = "eol" -> IF i = Len(s) THEN <<i>> ELSE <<>>
      [] r.t = "cat" -> CatEnds(r.rs, 1, s, i, ic)
      [] r.t = "alt" -> AltEnds(r.rs, 1, s, i, ic)
      [] r.t = "opt" -> Ends(r.r, s, i, ic) \o <<i>>
      [] r.t = "star" -> StarEnds(r.r, s, i, ic)
      [] r.t = "plus" -> StarFrom(r.r, s, Ends(r.r, s, i, ic), ic)
      [] r.t = "ahead" -> IF Ends(r.r, s, i, ic) # <<>> THEN <<i>> ELSE <<>>

CatEnds(rs, k, s, i, ic) ==
    IF k > Len(rs) THEN <<i>> ELSE CatFrom(rs, k, s, Ends(rs[k], s, i, ic), ic)

CatFrom(rs, k, s, es, ic) ==
    IF es = <<>> THEN <<>>
    ELSE CatEnds(rs, k + 1, s, Head(es), ic) \o CatFrom(rs, k, s, Tail(es), ic)

AltEnds(rs, k, s, i, ic) ==
    IF k > Len(rs) THEN <<>>
    ELSE Ends(rs[k], s, i, ic) \o AltEnds(rs, k + 1, s, i, ic)

\* greedy r*: one more r (consuming something) first, then stop here
StarEnds(r, s, i, ic) ==
    StarFrom(r, s, SelectSeq(Ends(r, s, i, ic), LAMBDA e : e > i), ic) \o <<i>>

StarFrom(r, s, es, ic) ==
    IF es = <<>> THEN <<>>
    ELSE StarEnds(r, s, Head(es), ic) \o StarFrom(r, s, Tail(es), ic)

NSet(cs) == [t |-> "nset", cs |-> cs]

RECURSIVE SearchFrom(_, _, _, _)
\* pattern.search(s, i): <<start, end>> of the leftmost match at or after
\* position i, or <<>> for None
SearchFrom(r, s, i, ic) ==
    IF i > Len(s) THEN <<>>
    ELSE LET es == Ends(r, s, i, ic)
         IN  IF es # <<>> THEN <<i, Head(es)>> ELSE SearchFrom(r, s, i + 1, ic)

\* re.search(r, s) is not None
re_search(r, s, ic) == SearchFrom(r, s, 0, ic) # <<>>

\* re.fullmatch(r, s) is not None
re_fullmatch(r, s, ic) == \E k \in DOMAIN Ends(r, s, 0, ic) : Ends(r, s, 0, ic)[k] = Len(s)

RECURSIVE SubFrom(_, _, _, _, _)
\* re.sub(r, repl, s): every non-overlapping match, left to right, replaced
\* by the literal repl (no pattern of the scripts matches the empty text)
SubFrom(r, repl, s, i, ic) ==
    LET m == SearchFrom(r, s, i, ic)
    IN  IF m = <<>> \/ m[2] = m[1] THEN SubSeq(s, i + 1, Len(s))
        ELSE SubSeq(s, i + 1, m[1]) \o repl \o SubFrom(r, repl, s, m[2], ic)

re_sub(r, repl, s, ic) == SubFrom(r, repl, s, 0, ic)

\* re.split(r, s, maxsplit=1)[0]
re_split_head(r, s, ic) ==
    LET m == SearchFrom(r, s, 0, ic)
    IN  IF m = <<>> \/ m[2] = m[1] THEN s ELSE SubSeq(s, 1, m[1])

-----------------------------------------------------------------------------
(* Canonicalisation.                                                       *)

\* pd.NA; no text, since a text holds one-character strings only
NA == <<"<NA>">>

\* None, likewise
None == <<"<None>">>

RECURSIVE expand(_, _, _)
\* for pat, repl in ALIASES.items(): the first pattern found is substituted
\* (every match of it), then break
expand(aliases, k, inst) ==
    IF k > Len(aliases) THEN inst
    ELSE IF re_search(aliases[k][1], inst, TRUE)
         THEN re_sub(aliases[k][1], aliases[k][2], inst, TRUE)
         ELSE expand(aliases, k + 1, inst)

\* r"\([^)]*\)"
BALANCED_PAT == Cat(<<Lit("("), Star(NSet({")"})), Lit(")")>>)
\* r"\s*\(.*$"
UNMATCHED_PAT == Cat(<<Star(Space), Lit("("), Star(AnyChar), Eol>>)
\* r",\s*[A-Z][A-Za-z.\s]+$"
LOCALITY_PAT ==
    Cat(<<Lit(","), Star(Space), Set(Range(AsciiUpper)),
          Plus(Set(Range(AsciiUpper) \cup Range(AsciiLower) \cup Whitespace \cup {"."})),
          Eol>>)
\* r"-+"
DASHES_PAT == Plus(Lit("-"))

\* the three clean-up statements every script shares: balanced (...),
\* a dangling "( ...", runs of whitespace
strip_parentheticals(inst) ==
    LET a == re_sub(BALANCED_PAT, <<" ">>, inst, FALSE)
        b == re_sub(UNMATCHED_PAT, <<>>, a, FALSE)
    IN  strip(re_sub(Plus(Space), <<" ">>, b, FALSE))

\* the trailing ", Country / City / Campus" statement every script shares
strip_locality(inst) ==
    IF startswith(inst, <<"U","n","i","v","e","r","s","i","t","y"," ","o","f"," ","C","a","l","i","f","o","r","n","i","a",",">>)
       \/ startswith(inst, <<"U","n","i","v","e","r","s","i","t","y"," ","o","f"," ","M","a","r","y","l","a","n","d",",">>)
    THEN inst
    ELSE strip(re_sub(LOCALITY_PAT, <<>>, inst, FALSE))

\* str.replace of the two Unicode dashes
normalise_dashes(inst) == replace_char(replace_char(inst, "{en}", "-"), "{em}", "-")

(* main_stanford.py *)
ALIASES_stanford == <<
    <<Cat(<<WordB, Str(<<"M","I","T">>), WordB>>),
      <<"M","a","s","s","a","c","h","u","s","e","t","t","s"," ","I","n","s","t","i","t","u","t","e"," ","o","f"," ","T","e","c","h","n","o","l","o","g","y">>>>,
    <<Cat(<<WordB, Str(<<"C","a","l","t","e","c","h">>), WordB>>),
      <<"C","a","l","i","f","o","r","n","i","a"," ","I","n","s","t","i","t","u","t","e"," ","o","f"," ","T","e","c","h","n","o","l","o","g","y">>>>,
    <<Cat(<<WordB, Str(<<"C","M","U">>), WordB>>),
      <<"C","a","r","n","e","g","i","e"," ","M","e","l","l","o","n"," ","U","n","i","v","e","r","s","i","t","y">>>>,
    <<Cat(<<WordB, Str(<<"G","e","o","r","g","i","a">>), Star(Space), Str(<<"T","e","c","h">>), WordB>>),
      <<"G","e","o","r","g","i","a"," ","I","n","s","t","i","t","u","t","e"," ","o","f"," ","T","e","c","h","n","o","l","o","g","y">>>>,
    <<Cat(<<WordB, Str(<<"U","W">>), WordB>>),
      <<"U","n","i","v","e","r","s","i","t","y"," ","o","f"," ","W","a","s","h","i","n","g","t","o","n">>>>,
    <<Cat(<<WordB, Lit("U"), Opt(Lit(".")), Star(Space), Str(<<"C","h","i","c","a","g","o">>), WordB>>),
      <<"U","n","i","v","e","r","s","i","t","y"," ","o","f"," ","C","h","i","c","a","g","o">>>>,
    <<Alt(<<Cat(<<WordB, Str(<<"U","C">>), Star(Space), Str(<<"B","e","r","k","e","l","e","y">>), WordB>>), Cat(<<WordB, Str(<<"U","C","B">>), WordB>>)>>),
      <<"U","n","i","v","e","r","s","i","t","y"," ","o","f"," ","C","a","l","i","f","o","r","n","i","a",","," ","B","e","r","k","e","l","e","y">>>>,
    <<Alt(<<Cat(<<WordB, Str(<<"U","C","S","D">>), WordB>>), Cat(<<WordB, Str(<<"U","C">>), Star(Space), Str(<<"S","a","n">>), Star(Space), Str(<<"D","i","e","g","o">>), WordB>>), Cat(<<Bol, Str(<<"U","n","i","v","e","r","s","i","t","y"," ","o","f"," ","C","a","l","i","f","o","r","n","i","a"," ","S","a","n"," ","D","i","e","g","o">>), Eol>>)>>),
      <<"U","n","i","v","e","r","s","i","t","y"," ","o","f"," ","C","a","l","i","f","o","r","n","i","a",","," ","S","a","n"," ","D","i","e","g","o">>>>,
    <<Cat(<<WordB, Str(<<"U","C","L","A">>), WordB>>),
      <<"U","n","i","v","e","r","s","i","t","y"," ","o","f"," ","C","a","l","i","f","o","r","n","i","a",","," ","L","o","s"," ","A","n","g","e","l","e","s">>>>,
    <<Cat(<<WordB, Str(<<"U","C">>), Star(Space), Str(<<"D","a","v","i","s">>), WordB>>),
      <<"U","n","i","v","e","r","s","i","t","y"," ","o","f"," ","C","a","l","i","f","o","r","n","i","a",","," ","D","a","v","i","s">>>>,
    <<Cat(<<WordB, Str(<<"U","C","I">>), WordB>>),
      <<"U","n","i","v","e","r","s","i","t","y"," ","o","f"," ","C","a","l","i","f","o","r","n","i","a",","," ","I","r","v","i","n","e">>>>,
    <<Cat(<<WordB, Str(<<"U","C","S","B">>), WordB>>),
      <<"U","n","i","v","e","r","s","i","t","y"," ","o","f"," ","C","a","l","i","f","o","r","n","i","a",","," ","S","a","n","t","a"," ","B","a","r","b","a","r","a">>>>,
    <<Str(<<"U","n","i","v","e","r","s","i","t","y"," ","o","f"," ","I","l","l","i","n","o","i","s"," ","a","t"," ","U","r","b","a","n","a","-","C","h","a","m","p","a","i","g","n">>),
      <<"U","n","i","v","e","r","s","i","t","y"," ","o","f"," ","I","l","l","i","n","o","i","s"," ","U","r","b","a","n","a","-","C","h","a","m","p","a","i","g","n">>>>,
    <<Cat(<<Bol, Str(<<"T","h","e"," ","U","n","i","v","e","r","s","i","t","y"," ","o","f"," ","N","o","r","t","h"," ","C","a","r","o","l","i","n","a"," ","a","t"," ","C","h","a","p","e","l"," ","H","i","l","l">>), Eol>>),
      <<"U","n","i","v","e","r","s","i","t","y"," ","o","f"," ","N","o","r","t","h"," ","C","a","r","o","l","i","n","a"," ","a","t"," ","C","h","a","p","e","l"," ","H","i","l","l">>>>,
    <<Cat(<<Bol, Str(<<"T","h","e"," ","U","n","i","v","e","r","s","i","t","y"," ","o","f"," ","S","y","d","n","e","y">>), Eol>>),
      <<"U","n","i","v","e","r","s","i","t","y"," ","o","f"," ","S","y","d","n","e","y">>>>,
    <<Cat(<<Bol, Str(<<"B","r","o","w","n"," ","U","n","i","v","e","r","s","i","t","y"," ","a","n","d"," ","R","h","o","d","e"," ","I","s","l","a","n","d"," ","S","c","h","o","o","l"," ","o","f"," ","D","e","s","i","g","n">>), Eol>>),
      <<"B","r","o","w","n"," ","U","n","i","v","e","r","s","i","t","y">>>>,
    <<Cat(<<Bol, Opt(Cat(<<Str(<<"T","h","e">>), Plus(Space)>>)), Str(<<"H","o","n","g"," ","K","o","n","g"," ","U","n","i","v","e","r","s","i","t","y"," ","o","f"," ","S","c","i","e","n","c","e"," ","a","n","d"," ","T","e","c","h","n","o","l","o","g","y">>), Eol>>),
      <<"T","h","e"," ","H","o","n","g"," ","K","o","n","g"," ","U","n","i","v","e","r","s","i","t","y"," ","o","f"," ","S","c","i","e","n","c","e"," ","a","n","d"," ","T","e","c","h","n","o","l","o","g","y">>>>,
    <<Cat(<<Bol, Str(<<"T","h","e"," ","U","n","i","v","e","r","s","i","t","y"," ","o","f"," ","H","o","n","g"," ","K","o","n","g">>), Eol>>),
      <<"U","n","i","v","e","r","s","i","t","y"," ","o","f"," ","H","o","n","g"," ","K","o","n","g">>>>,
    <<Str(<<"U","n","i","v","e","r","s","i","t","y"," ","o","f"," ","S","a","o"," ","P","a","u","l","o">>),
      <<"U","n","i","v","e","r","s","i","t","y"," ","o","f"," ","S","{a~}","o"," ","P","a","u","l","o">>>>,
    <<Cat(<<Bol, Str(<<"B","i","r","l","a"," ","I","n","s","t","i","t","u","t","e"," ","o","f"," ","T","e","c","h","n","o","l","o","g","y"," ","a","n","d"," ","S","c","i","e","n","c","e",","," ","P","i","l","a","n","i"," ","-"," ","G","o","a"," ","C","a","m","p","u","s">>), Eol>>),
      <<"B","i","r","l","a"," ","I","n","s","t","i","t","u","t","e"," ","o","f"," ","T","e","c","h","n","o","l","o","g","y"," ","a","n","d"," ","S","c","i","e","n","c","e">>>>,
    <<Cat(<<Bol, Str(<<"{E'}","c","o","l","e"," ","P","o","l","y","t","e","c","h","n","i","q","u","e"," ","F","{e'}","d","{e'}","r","a","l","e"," ","d","e"," ","L","a","u","s","a","n","n","e">>), Eol>>),
      <<"E","c","o","l","e"," ","P","o","l","y","t","e","c","h","n","i","q","u","e"," ","F","e","d","e","r","a","l","e"," ","d","e"," ","L","a","u","s","a","n","n","e">>>>,
    <<Cat(<<WordB, Str(<<"S","J","T","U">>), WordB>>),
      <<"S","h","a","n","g","h","a","i"," ","J","i","a","o"," ","T","o","n","g"," ","U","n","i","v","e","r","s","i","t","y">>>>,
    <<Cat(<<WordB, Str(<<"U","S","T","C">>), WordB>>),
      <<"U","n","i","v","e","r","s","i","t","y"," ","o","f"," ","S","c","i","e","n","c","e"," ","a","n","d"," ","T","e","c","h","n","o","l","o","g","y"," ","o","f"," ","C","h","i","n","a">>>>,
    <<Cat(<<WordB, Str(<<"B","I","T">>), Opt(Lit("S")), Star(Space), Str(<<"P","i","l","a","n","i">>), WordB>>),
      <<"B","i","r","l","a"," ","I","n","s","t","i","t","u","t","e"," ","o","f"," ","T","e","c","h","n","o","l","o","g","y"," ","a","n","d"," ","S","c","i","e","n","c","e">>>>,
    <<Cat(<<WordB, Str(<<"P","O","S","T","E","C","H">>), WordB>>),
      <<"P","o","h","a","n","g"," ","U","n","i","v","e","r","s","i","t","y"," ","o","f"," ","S","c","i","e","n","c","e"," ","a","n","d"," ","T","e","c","h","n","o","l","o","g","y">>>>,
    <<Cat(<<WordB, Str(<<"E","P","F","L">>), WordB>>),
      <<"E","c","o","l","e"," ","P","o","l","y","t","e","c","h","n","i","q","u","e"," ","F","e","d","e","r","a","l","e"," ","d","e"," ","L","a","u","s","a","n","n","e">>>>,
    <<Cat(<<Bol, Str(<<"H","a","r","v","a","r","d"," ","C","o","l","l","e","g","e">>), Eol>>),
      <<"H","a","r","v","a","r","d"," ","U","n","i","v","e","r","s","i","t","y">>>>
>>

\* r"(not\s*(found|available)|^n/?a$|unknown)", re.I
MISSING_PAT_stanford ==
    Alt(<<Cat(<<Str(<<"n","o","t">>), Star(Space), Alt(<<Str(<<"f","o","u","n","d">>), Str(<<"a","v","a","i","l","a","b","l","e">>)>>)>>),
          Cat(<<Bol, Lit("n"), Opt(Lit("/")), Lit("a"), Eol>>),
          Str(<<"u","n","k","n","o","w","n">>)>>)

\* r"\s+and\s+(?=(University|College|Institut|School|Polytechnic))"
AND_PAT ==
    Cat(<<Plus(Space), Str(<<"a","n","d">>), Plus(Space),
          Ahead(Alt(<<Str(<<"U","n","i","v","e","r","s","i","t","y">>), Str(<<"C","o","l","l","e","g","e">>), Str(<<"I","n","s","t","i","t","u","t">>),
                      Str(<<"S","c","h","o","o","l">>), Str(<<"P","o","l","y","t","e","c","h","n","i","c">>)>>))>>)

\* canonicalise_school(inst); "" is the unresolved result
canonicalise_school(inst0) ==
    LET inst1 == strip(inst0)
    IN  IF inst1 = <<>> \/ re_search(MISSING_PAT_stanford, inst1, TRUE) THEN <<>>
        ELSE LET inst2 == normalise_dashes(inst1)
                 inst3 == re_sub(Cat(<<Bol, Str(<<"T","h","e">>), Plus(Space)>>), <<>>, inst2, TRUE)
                 inst4 == strip(split_head(inst3, ";"))
                 inst5 == expand(ALIASES_stanford, 1, inst4)
                 inst6 == strip(split_head(inst5, "&"))
                 inst7 == strip(re_split_head(AND_PAT, inst6, FALSE))
             IN  strip_locality(strip_parentheticals(inst7))

(* main_cmu.py *)
ALIASES_cmu == <<
    <<Cat(<<WordB, Str(<<"M","I","T">>), WordB>>),
      <<"M","a","s","s","a","c","h","u","s","e","t","t","s"," ","I","n","s","t","i","t","u","t","e"," ","o","f"," ","T","e","c","h","n","o","l","o","g","y">>>>,
    <<Cat(<<WordB, Str(<<"C","a","l","t","e","c","h">>), WordB>>),
      <<"C","a","l","i","f","o","r","n","i","a"," ","I","n","s","t","i","t","u","t","e"," ","o","f"," ","T","e","c","h","n","o","l","o","g","y">>>>,
    <<Cat(<<WordB, Str(<<"C","M","U">>), WordB>>),
      <<"C","a","r","n","e","g","i","e"," ","M","e","l","l","o","n"," ","U","n","i","v","e","r","s","i","t","y">>>>,
    <<Cat(<<WordB, Str(<<"G","e","o","r","g","i","a">>), Star(Space), Str(<<"T","e","c","h">>), WordB>>),
      <<"G","e","o","r","g","i","a"," ","I","n","s","t","i","t","u","t","e"," ","o","f"," ","T","e","c","h","n","o","l","o","g","y">>>>,
    <<Cat(<<WordB, Str(<<"U","W">>), WordB>>),
      <<"U","n","i","v","e","r","s","i","t","y"," ","o","f"," ","W","a","s","h","i","n","g","t","o","n">>>>,
    <<Alt(<<Cat(<<WordB, Str(<<"U","C">>), Star(Space), Str(<<"B","e","r","k","e","l","e","y">>), WordB>>), Cat(<<WordB, Str(<<"U","C","B">>), WordB>>)>>),
      <<"U","n","i","v","e","r","s","i","t","y"," ","o","f"," ","C","a","l","i","f","o","r","n","i","a",","," ","B","e","r","k","e","l","e","y">>>>,
    <<Cat(<<WordB, Str(<<"U","C","S","D">>), WordB>>),
      <<"U","n","i","v","e","r","s","i","t","y"," ","o","f"," ","C","a","l","i","f","o","r","n","i","a",","," ","S","a","n"," ","D","i","e","g","o">>>>,
    <<Cat(<<WordB, Str(<<"U","C","L","A">>), WordB>>),
      <<"U","n","i","v","e","r","s","i","t","y"," ","o","f"," ","C","a","l","i","f","o","r","n","i","a",","," ","L","o","s"," ","A","n","g","e","l","e","s">>>>,
    <<Cat(<<WordB, Str(<<"U","C">>), Star(Space), Str(<<"D","a","v","i","s">>), WordB>>),
      <<"U","n","i","v","e","r","s","i","t","y"," ","o","f"," ","C","a","l","i","f","o","r","n","i","a",","," ","D","a","v","i","s">>>>,
    <<Cat(<<WordB, Str(<<"U","C","I">>), WordB>>),
      <<"U","n","i","v","e","r","s","i","t","y"," ","o","f"," ","C","a","l","i","f","o","r","n","i","a",","," ","I","r","v","i","n","e">>>>,
    <<Cat(<<WordB, Str(<<"U","C","S","B">>), WordB>>),
      <<"U","n","i","v","e","r","s","i","t","y"," ","o","f"," ","C","a","l","i","f","o","r","n","i","a",","," ","S","a","n","t","a"," ","B","a","r","b","a","r","a">>>>,
    <<Cat(<<WordB, Str(<<"S","J","T","U">>), WordB>>),
      <<"S","h","a","n","g","h","a","i"," ","J","i","a","o"," ","T","o","n","g"," ","U","n","i","v","e","r","s","i","t","y">>>>,
    <<Cat(<<WordB, Str(<<"U","S","T","C">>), WordB>>),
      <<"U","n","i","v","e","r","s","i","t","y"," ","o","f"," ","S","c","i","e","n","c","e"," ","a","n","d"," ","T","e","c","h","n","o","l","o","g","y"," ","o","f"," ","C","h","i","n","a">>>>,
    <<Cat(<<WordB, Str(<<"B","I","T">>), Opt(Lit("S")), Star(Space), Str(<<"P","i","l","a","n","i">>), WordB>>),
      <<"B","i","r","l","a"," ","I","n","s","t","i","t","u","t","e"," ","o","f"," ","T","e","c","h","n","o","l","o","g","y"," ","a","n","d"," ","S","c","i","e","n","c","e">>>>,
    <<Cat(<<WordB, Str(<<"P","O","S","T","E","C","H">>), WordB>>),
      <<"P","o","h","a","n","g"," ","U","n","i","v","e","r","s","i","t","y"," ","o","f"," ","S","c","i","e","n","c","e"," ","a","n","d"," ","T","e","c","h","n","o","l","o","g","y">>>>,
    <<Cat(<<WordB, Str(<<"E","P","F","L">>), WordB>>),
      <<"{E'}","c","o","l","e"," ","P","o","l","y","t","e","c","h","n","i","q","u","e"," ","F","{e'}","d","{e'}","r","a","l","e"," ","d","e"," ","L","a","u","s","a","n","n","e">>>>,
    <<Cat(<<Str(<<"U","n","i","v","e","r","s","i","t","y"," ","o","f"," ","I","l","l","i","n","o","i","s"," ","a","t"," ","U","r","b","a","n","a">>), Set({"{en}", "-"}), Str(<<"C","h","a","m","p","a","i","g","n">>)>>),
      <<"U","n","i","v","e","r","s","i","t","y"," ","o","f"," ","I","l","l","i","n","o","i","s"," ","a","t"," ","U","r","b","a","n","a","-","C","h","a","m","p","a","i","g","n">>>>,
    <<Cat(<<Str(<<"U","n","i","v","e","r","s","i","t","y"," ","o","f"," ","M","a","r","y","l","a","n","d">>), Opt(Lit(",")), Str(<<" ","B","a","l","t","i","m","o","r","e"," ","C","o","u","n","t","y">>)>>),
      <<"U","n","i","v","e","r","s","i","t","y"," ","o","f"," ","M","a","r","y","l","a","n","d",","," ","B","a","l","t","i","m","o","r","e"," ","C","o","u","n","t","y">>>>
>>

\* r"^(unknown|undergrad institution not found|institution not confirmed|
\*     not\s*(found|available)|n/?a)$", re.I
MISSING_PAT_cmu ==
    Cat(<<Bol,
          Alt(<<Str(<<"u","n","k","n","o","w","n">>), Str(<<"u","n","d","e","r","g","r","a","d"," ","i","n","s","t","i","t","u","t","i","o","n"," ","n","o","t"," ","f","o","u","n","d">>),
                Str(<<"i","n","s","t","i","t","u","t","i","o","n"," ","n","o","t"," ","c","o","n","f","i","r","m","e","d">>),
                Cat(<<Str(<<"n","o","t">>), Star(Space), Alt(<<Str(<<"f","o","u","n","d">>), Str(<<"a","v","a","i","l","a","b","l","e">>)>>)>>),
                Cat(<<Lit("n"), Opt(Lit("/")), Lit("a")>>)>>),
          Eol>>)

\* re.split(r"[;&]", inst)[0]
split_multi(inst) ==
    LET cut == {k \in 1..Len(inst) : inst[k] \in {";", "&"}}
    IN  IF cut = {} THEN inst
        ELSE SubSeq(inst, 1, (CHOOSE k \in cut : \A j \in cut : k <= j) - 1)

\* canonical(inst) of main_cmu.py; the cell is a text (pd.isna is False)
canonical_cmu(inst0) ==
    LET inst1 == normalise_dashes(strip(inst0))
    IN  IF inst1 = <<>> \/ re_fullmatch(DASHES_PAT, inst1, FALSE)
           \/ re_fullmatch(MISSING_PAT_cmu, inst1, TRUE)
        THEN NA
        ELSE LET inst2 == strip(split_multi(inst1))
                 inst3 == expand(ALIASES_cmu, 1, inst2)
                 inst4 == strip_locality(strip_parentheticals(inst3))
             IN  IF inst4 = <<>> THEN NA ELSE inst4

(* main.py *)
ALIASES_main == <<
    <<Cat(<<WordB, Str(<<"M","I","T">>), WordB>>),
      <<"M","a","s","s","a","c","h","u","s","e","t","t","s"," ","I","n","s","t","i","t","u","t","e"," ","o","f"," ","T","e","c","h","n","o","l","o","g","y">>>>,
    <<Cat(<<WordB, Str(<<"C","a","l","t","e","c","h">>), WordB>>),
      <<"C","a","l","i","f","o","r","n","i","a"," ","I","n","s","t","i","t","u","t","e"," ","o","f"," ","T","e","c","h","n","o","l","o","g","y">>>>,
    <<Cat(<<WordB, Str(<<"C","M","U">>), WordB>>),
      <<"C","a","r","n","e","g","i","e"," ","M","e","l","l","o","n"," ","U","n","i","v","e","r","s","i","t","y">>>>,
    <<Cat(<<WordB, Str(<<"G","e","o","r","g","i","a">>), Star(Space), Str(<<"T","e","c","h">>), WordB>>),
      <<"G","e","o","r","g","i","a"," ","I","n","s","t","i","t","u","t","e"," ","o","f"," ","T","e","c","h","n","o","l","o","g","y">>>>,
    <<Cat(<<WordB, Str(<<"U","W">>), WordB>>),
      <<"U","n","i","v","e","r","s","i","t","y"," ","o","f"," ","W","a","s","h","i","n","g","t","o","n">>>>,
    <<Alt(<<Cat(<<WordB, Str(<<"U","C">>), Star(Space), Str(<<"B","e","r","k","e","l","e","y">>), WordB>>), Cat(<<WordB, Str(<<"U","C","B">>), WordB>>)>>),
      <<"U","n","i","v","e","r","s","i","t","y"," ","o","f"," ","C","a","l","i","f","o","r","n","i","a",","," ","B","e","r","k","e","l","e","y">>>>,
    <<Cat(<<WordB, Str(<<"U","C","S","D">>), WordB>>),
      <<"U","n","i","v","e","r","s","i","t","y"," ","o","f"," ","C","a","l","i","f","o","r","n","i","a",","," ","S","a","n"," ","D","i","e","g","o">>>>,
    <<Cat(<<WordB, Str(<<"U","C","L","A">>), WordB>>),
      <<"U","n","i","v","e","r","s","i","t","y"," ","o","f"," ","C","a","l","i","f","o","r","n","i","a",","," ","L","o","s"," ","A","n","g","e","l","e","s">>>>,
    <<Cat(<<WordB, Str(<<"U","C">>), Star(Space), Str(<<"D","a","v","i","s">>), WordB>>),
      <<"U","n","i","v","e","r","s","i","t","y"," ","o","f"," ","C","a","l","i","f","o","r","n","i","a",","," ","D","a","v","i","s">>>>,
    <<Cat(<<WordB, Str(<<"U","C","I">>), WordB>>),
      <<"U","n","i","v","e","r","s","i","t","y"," ","o","f"," ","C","a","l","i","f","o","r","n","i","a",","," ","I","r","v","i","n","e">>>>,
    <<Cat(<<WordB, Str(<<"U","C","S","B">>), WordB>>),
      <<"U","n","i","v","e","r","s","i","t","y"," ","o","f"," ","C","a","l","i","f","o","r","n","i","a",","," ","S","a","n","t","a"," ","B","a","r","b","a","r","a">>>>,
    <<Cat(<<WordB, Str(<<"S","J","T","U">>), WordB>>),
      <<"S","h","a","n","g","h","a","i"," ","J","i","a","o"," ","T","o","n","g"," ","U","n","i","v","e","r","s","i","t","y">>>>,
    <<Cat(<<WordB, Str(<<"U","S","T","C">>), WordB>>),
      <<"U","n","i","v","e","r","s","i","t","y"," ","o","f"," ","S","c","i","e","n","c","e"," ","a","n","d"," ","T","e","c","h","n","o","l","o","g","y"," ","o","f"," ","C","h","i","n","a">>>>,
    <<Cat(<<WordB, Str(<<"B","I","T">>), Opt(Lit("S")), Star(Space), Str(<<"P","i","l","a","n","i">>), WordB>>),
      <<"B","i","r","l","a"," ","I","n","s","t","i","t","u","t","e"," ","o","f"," ","T","e","c","h","n","o","l","o","g","y"," ","a","n","d"," ","S","c","i","e","n","c","e">>>>,
    <<Cat(<<WordB, Str(<<"P","O","S","T","E","C","H">>), WordB>>),
      <<"P","o","h","a","n","g"," ","U","n","i","v","e","r","s","i","t","y"," ","o","f"," ","S","c","i","e","n","c","e"," ","a","n","d"," ","T","e","c","h","n","o","l","o","g","y">>>>,
    <<Cat(<<WordB, Str(<<"E","P","F","L">>), WordB>>),
      <<"{E'}","c","o","l","e"," ","P","o","l","y","t","e","c","h","n","i","q","u","e"," ","F","{e'}","d","{e'}","r","a","l","e"," ","d","e"," ","L","a","u","s","a","n","n","e">>>>
>>

\* r"(not\s*(found|available)|^n/?a$)", re.I
MISSING_PAT_main ==
    Alt(<<Cat(<<Str(<<"n","o","t">>), Star(Space), Alt(<<Str(<<"f","o","u","n","d">>), Str(<<"a","v","a","i","l","a","b","l","e">>)>>)>>),
          Cat(<<Bol, Lit("n"), Opt(Lit("/")), Lit("a"), Eol>>)>>)

\* canonical(inst) of main.py; the cell is a text (pd.isna is False)
canonical_main(inst0) ==
    LET inst1 == strip(inst0)
    IN  IF inst1 = <<>> \/ re_fullmatch(DASHES_PAT, inst1, FALSE)
           \/ re_search(MISSING_PAT_main, inst1, TRUE)
        THEN NA
        ELSE LET inst2 == expand(ALIASES_main, 1, inst1)
                 inst3 == strip(split_head(inst2, "&"))
                 inst4 == strip_locality(strip_parentheticals(inst3))
             IN  IF inst4 = <<>> THEN NA ELSE inst4

-----------------------------------------------------------------------------
(* Bounds of the model.                                                    *)

\* the longest input file, in lines
MaxLines == 3

\* the longest clipboard, in lines
MaxClipboardLines == 4

\* the longest base file of a merge, in lines
MaxBaseLines == 2

\* the most update files of a merge, and the most lines in them together
MaxUpdateFiles == 2
MaxUpdateLines == 2

\* the largest --chunk-size
MaxChunkSize == 3

\* the sequences over S of length at most n
SeqsUpTo(S, n) == UNION {[1..k -> S] : k \in 0..n}

\* ALLOWED_DEPTS = None
AllowAll == {None}

\* the variables of the scripts that do not run, at rest
TallyIdle ==
    /\ counter = <<>> /\ seen_names = [n \in {} |-> <<>>]
    /\ skipped_duplicates = 0 /\ skipped_missing = 0 /\ conflicts = <<>>
CmuIdle ==
    /\ ALLOWED_DEPTS = AllowAll /\ current_dept = None /\ df = <<>>
    /\ per_dept = <<>> /\ shown = <<>>
\* -n/--chunk-size, default=10
DefaultChunkSize == 10

ProcIdle ==
    /\ names = <<>> /\ input_read = FALSE /\ out_file = None
    /\ f_buffer = <<>> /\ sent = <<>> /\ results = <<>>
GptIdle ==
    /\ update_files = <<>> /\ merged_lines = <<>> /\ unknown_names = <<>>
    /\ retry_unknowns = FALSE /\ chunk_size = DefaultChunkSize /\ ProcIdle
CanonIdle == cell = <<>> /\ returned = [s \in {} |-> <<>>] /\ again = [s \in {} |-> <<>>]

-----------------------------------------------------------------------------
(* main_stanford.py: parse_processed_lines, tally_schools, save_counts.    *)

\* lines of a processed file: names A, B and the empty name; schools that
\* canonicalise alike (MIT, mit), differ (Yale), are missing (unknown), are
\* placeholders only after clean-up, are empty; a line without separator
StanfordLines ==
    { <<"A"," ","|"," ","M","I","T">>, <<"A"," ","|"," ","m","i","t"," ">>, <<"A"," ","|"," ","Y","a","l","e">>, <<"B","|","M","I","T">>, <<"B"," ","|"," ","u","n","k","n","o","w","n">>, <<"B"," ","|"," ","-">>,
      <<"B"," ","|"," ","N","/","A"," ","(","t","b","c",")">>, <<" ","|"," ","Y","a","l","e">>, <<"A"," ","|">>, <<"S","c","h","o","o","l">> }

\* counter[school], 0 when absent (a Counter's missing key)
CountOf(c, school) ==
    IF \E k \in DOMAIN c : c[k][1] = school
    THEN c[CHOOSE k \in DOMAIN c : c[k][1] = school][2]
    ELSE 0

\* Increment with a present key set to 1 instead of counted up
Increment_Reset(c, school) ==
    IF \E k \in DOMAIN c : c[k][1] = school
    THEN [k \in DOMAIN c |-> IF c[k][1] = school THEN <<school, 1>> ELSE c[k]]
    ELSE Append(c, <<school, 1>>)

\* counter[school] += 1: a new key goes last, a present key keeps its place
Increment(c, school) ==
    IF \E k \in DOMAIN c : c[k][1] = school
    THEN [k \in DOMAIN c |-> IF c[k][1] = school THEN <<school, c[k][2] + 1>> ELSE c[k]]
    ELSE Append(c, <<school, 1>>)

\* name, school = [part.strip() for part in line.split("|", 1)]
split_line(line) ==
    <<strip(split_first(line, "|")[1]), strip(split_first(line, "|")[2])>>

\* canon = canonicalise_school(school) for the schools of StanfordLines,
\* evaluated once: the function is pure
StanfordCanon ==
    [school \in {split_line(l)[2] : l \in {x \in StanfordLines : Contains(x, "|")}} |->
        canonicalise_school(school)]

\* the line the loop is at, and what parse_processed_lines makes of it
AtLine == prog = "stanford" /\ pc = "tally" /\ idx <= Len(lines)
Yields(line) == Contains(line, "|") /\ split_line(line)[2] # <<>>

InitStanford ==
    /\ prog = "stanford" /\ pc = "tally"
    /\ lines \in SeqsUpTo(StanfordLines, MaxLines)
    /\ idx = 1 /\ records = <<>>
    /\ table = <<>>
    /\ TallyIdle /\ CmuIdle /\ GptIdle /\ CanonIdle

\* parse_processed_lines: no separator, or an empty school: nothing is yielded
SkipLine ==
    /\ AtLine /\ ~Yields(lines[idx])
    /\ idx' = idx + 1
    /\ UNCHANGED <<prog, pc, lines, records, tallyVars, table>>
    /\ UNCHANGED <<cmuVars, gptVars, canonVars>>

\* if not canon: skipped_missing += 1; continue
TallyMissing ==
    /\ AtLine /\ Yields(lines[idx])
    /\ LET rec == split_line(lines[idx])
       IN  /\ StanfordCanon[rec[2]] = <<>>
           /\ records' = Append(records, rec)
    /\ skipped_missing' = skipped_missing + 1
    /\ idx' = idx + 1
    /\ UNCHANGED <<prog, pc, lines, counter, seen_names, skipped_duplicates, conflicts, table>>
    /\ UNCHANGED <<cmuVars, gptVars, canonVars>>

\* TallyDuplicate with the duplicate counted again
TallyDuplicate_Counted ==
    /\ AtLine /\ Yields(lines[idx])
    /\ LET rec == split_line(lines[idx])
           canon == StanfordCanon[rec[2]]
       IN  /\ canon # <<>>
           /\ rec[1] \in DOMAIN seen_names /\ seen_names[rec[1]] = canon
           /\ records' = Append(records, rec)
           /\ counter' = Increment(counter, canon)
    /\ skipped_duplicates' = skipped_duplicates + 1
    /\ idx' = idx + 1
    /\ UNCHANGED <<prog, pc, lines, seen_names, skipped_missing, conflicts, table>>
    /\ UNCHANGED <<cmuVars, gptVars, canonVars>>

\* if seen_names[name] == canon: skipped_duplicates += 1; continue
TallyDuplicate ==
    /\ AtLine /\ Yields(lines[idx])
    /\ LET rec == split_line(lines[idx])
           canon == StanfordCanon[rec[2]]
       IN  /\ canon # <<>>
           /\ rec[1] \in DOMAIN seen_names /\ seen_names[rec[1]] = canon
           /\ records' = Append(records, rec)
    /\ skipped_duplicates' = skipped_duplicates + 1
    /\ idx' = idx + 1
    /\ UNCHANGED <<prog, pc, lines, counter, seen_names, skipped_missing, conflicts, table>>
    /\ UNCHANGED <<cmuVars, gptVars, canonVars>>

\* TallyConflict with the later school taking the name over
TallyConflict_LastWins ==
    /\ AtLine /\ Yields(lines[idx])
    /\ LET rec == split_line(lines[idx])
           canon == StanfordCanon[rec[2]]
       IN  /\ canon # <<>>
           /\ rec[1] \in DOMAIN seen_names /\ seen_names[rec[1]] # canon
           /\ records' = Append(records, rec)
           /\ conflicts' = Append(conflicts, <<rec[1], seen_names[rec[1]], canon>>)
           /\ seen_names' = [seen_names EXCEPT ![rec[1]] = canon]
    /\ idx' = idx + 1
    /\ UNCHANGED <<prog, pc, lines, counter, skipped_duplicates, skipped_missing, table>>
    /\ UNCHANGED <<cmuVars, gptVars, canonVars>>

\* conflicts.append((name, seen_names[name], canon)); continue
TallyConflict ==
    /\ AtLine /\ Yields(lines[idx])
    /\ LET rec == split_line(lines[idx])
           canon == StanfordCanon[rec[2]]
       IN  /\ canon # <<>>
           /\ rec[1] \in DOMAIN seen_names /\ seen_names[rec[1]] # canon
           /\ records' = Append(records, rec)
           /\ conflicts' = Append(conflicts, <<rec[1], seen_names[rec[1]], canon>>)
    /\ idx' = idx + 1
    /\ UNCHANGED <<prog, pc, lines, counter, seen_names, skipped_duplicates,
                   skipped_missing, table>>
    /\ UNCHANGED <<cmuVars, gptVars, canonVars>>

\* seen_names[name] = canon; counter[canon] += 1
TallyNew ==
    /\ AtLine /\ Yields(lines[idx])
    /\ LET rec == split_line(lines[idx])
           canon == StanfordCanon[rec[2]]
       IN  /\ canon # <<>>
           /\ rec[1] \notin DOMAIN seen_names
           /\ records' = Append(records, rec)
           /\ seen_names' = [n \in DOMAIN seen_names \cup {rec[1]} |->
                               IF n = rec[1] THEN canon ELSE seen_names[n]]
           /\ counter' = Increment(counter, canon)
    /\ idx' = idx + 1
    /\ UNCHANGED <<prog, pc, lines, skipped_duplicates, skipped_missing, conflicts, table>>
    /\ UNCHANGED <<cmuVars, gptVars, canonVars>>

\* return counter, skipped_duplicates, skipped_missing, conflicts
TallyReturn ==
    /\ prog = "stanford" /\ pc = "tally" /\ idx > Len(lines)
    /\ pc' = "save"
    /\ UNCHANGED <<prog, lines, idx, records, tallyVars, table>>
    /\ UNCHANGED <<cmuVars, gptVars, canonVars>>

RECURSIVE insert_desc(_, _)
\* one step of a stable sort by count, largest first: the row goes after
\* every row whose count is not smaller
insert_desc(sorted, row) ==
    IF sorted = <<>> THEN <<row>>
    ELSE IF Head(sorted)[2] >= row[2] THEN <<Head(sorted)>> \o insert_desc(Tail(sorted), row)
         ELSE <<row>> \o sorted

RECURSIVE most_common_from(_, _)
most_common_from(c, sorted) ==
    IF c = <<>> THEN sorted ELSE most_common_from(Tail(c), insert_desc(sorted, Head(c)))

\* Counter.most_common(): sorted(items, key=count, reverse=True), a stable
\* sort, so equal counts stay in insertion order
most_common(c) == most_common_from(c, <<>>)

\* save_counts: the rows written after the header and the "- | -" row
SaveCounts ==
    /\ prog = "stanford" /\ pc = "save"
    /\ table' = most_common(counter)
    /\ pc' = "done"
    /\ UNCHANGED <<prog, lines, idx, records, tallyVars>>
    /\ UNCHANGED <<cmuVars, gptVars, canonVars>>

NextStanford ==
    \/ SkipLine \/ TallyMissing \/ TallyDuplicate \/ TallyConflict \/ TallyNew
    \/ TallyReturn \/ SaveCounts

SpecStanford == InitStanford /\ [][NextStanford]_vars

-----------------------------------------------------------------------------
(* main_cmu.py: the clipboard lines, the records, the overall table.       *)

\* lines of the clipboard: headings (one with blanks around it, one outside
\* the allow-list of line 35), a blank line, student lines
CmuLines ==
    { <<"C","S","D">>, <<" ","M","L">>, <<"R","I">>, <<" ">>, <<"A"," ","|"," ","M","I","T">>, <<"B"," ","|"," ","Y","a","l","e">>, <<"C"," ","|"," ","u","n","k","n","o","w","n">>, <<"D"," ","|">>, <<" ","|"," ","M","I","T">> }

\* Inst_canon = canonical(inst) for the institutions of CmuLines, evaluated
\* once: the function is pure
CmuCanon ==
    [inst \in {split_line(l)[2] : l \in {x \in CmuLines : Contains(x, "|")}} |->
        canonical_cmu(inst)]

InitCmu ==
    /\ prog = "cmu" /\ pc = "read"
    /\ lines \in SeqsUpTo(CmuLines, MaxClipboardLines)
    /\ ALLOWED_DEPTS \in {AllowAll, { <<"C","S","D">>, <<"M","L">>, <<"L","T","I">> }}
    /\ idx = 1 /\ records = <<>> /\ table = <<>>
    /\ current_dept = None /\ df = <<>> /\ per_dept = <<>> /\ shown = <<>>
    /\ TallyIdle /\ GptIdle /\ CanonIdle

\* raw_lines = [ln for ln in clipboard_text.splitlines() if ln.strip()];
\* sys.exit when nothing is left
ReadClipboard ==
    /\ prog = "cmu" /\ pc = "read"
    /\ lines' = SelectSeq(lines, LAMBDA ln : strip(ln) # <<>>)
    /\ pc' = IF lines' = <<>> THEN "exit" ELSE "parse"
    /\ UNCHANGED <<prog, idx, records, table, tallyVars, cmuVars>>
    /\ UNCHANGED <<gptVars, canonVars>>

AtRawLine == prog = "cmu" /\ pc = "parse" /\ idx <= Len(lines)

\* HeadingIgnored with a stray heading ending the active department
HeadingIgnored_Resets ==
    /\ AtRawLine /\ ~Contains(lines[idx], "|")
    /\ ALLOWED_DEPTS # AllowAll /\ strip(lines[idx]) \notin ALLOWED_DEPTS
    /\ current_dept' = None
    /\ idx' = idx + 1
    /\ UNCHANGED <<prog, pc, lines, records, table, tallyVars, ALLOWED_DEPTS, df, per_dept, shown>>
    /\ UNCHANGED <<gptVars, canonVars>>

\* a line without separator that is accepted: current_dept = dept_candidate
Heading ==
    /\ AtRawLine /\ ~Contains(lines[idx], "|")
    /\ ALLOWED_DEPTS = AllowAll \/ strip(lines[idx]) \in ALLOWED_DEPTS
    /\ current_dept' = strip(lines[idx])
    /\ idx' = idx + 1
    /\ UNCHANGED <<prog, pc, lines, records, table, tallyVars, ALLOWED_DEPTS, df, per_dept, shown>>
    /\ UNCHANGED <<gptVars, canonVars>>

\* a stray heading: else ignore; continue
HeadingIgnored ==
    /\ AtRawLine /\ ~Contains(lines[idx], "|")
    /\ ALLOWED_DEPTS # AllowAll /\ strip(lines[idx]) \notin ALLOWED_DEPTS
    /\ idx' = idx + 1
    /\ UNCHANGED <<prog, pc, lines, records, table, tallyVars, cmuVars>>
    /\ UNCHANGED <<gptVars, canonVars>>

\* if current_dept is None: continue
RecordBeforeDept ==
    /\ AtRawLine /\ Contains(lines[idx], "|")
    /\ current_dept = None
    /\ idx' = idx + 1
    /\ UNCHANGED <<prog, pc, lines, records, table, tallyVars, cmuVars>>
    /\ UNCHANGED <<gptVars, canonVars>>

\* if not name or not inst: continue
RecordMalformed ==
    /\ AtRawLine /\ Contains(lines[idx], "|")
    /\ current_dept # None
    /\ split_line(lines[idx])[1] = <<>> \/ split_line(lines[idx])[2] = <<>>
    /\ idx' = idx + 1
    /\ UNCHANGED <<prog, pc, lines, records, table, tallyVars, cmuVars>>
    /\ UNCHANGED <<gptVars, canonVars>>

\* records.append({Name, Undergraduate Institution, Dept})
RecordAppend ==
    /\ AtRawLine /\ Contains(lines[idx], "|")
    /\ current_dept # None
    /\ split_line(lines[idx])[1] # <<>> /\ split_line(lines[idx])[2] # <<>>
    /\ records' = Append(records, <<split_line(lines[idx])[1], split_line(lines[idx])[2],
                                    current_dept>>)
    /\ idx' = idx + 1
    /\ UNCHANGED <<prog, pc, lines, table, tallyVars, cmuVars>>
    /\ UNCHANGED <<gptVars, canonVars>>

\* if not records: sys.exit
NoRecords ==
    /\ prog = "cmu" /\ pc = "parse" /\ idx > Len(lines)
    /\ records = <<>>
    /\ pc' = "exit"
    /\ UNCHANGED <<prog, lines, idx, records, table, tallyVars, cmuVars>>
    /\ UNCHANGED <<gptVars, canonVars>>

\* a row comes before another in sort_values(["Student Count", "Inst_canon"],
\* ascending=[False, True])
row_before(a, b) == a[2] > b[2] \/ (a[2] = b[2] /\ text_less(a[1], b[1]))

RECURSIVE sort_rows(_)
\* the rows of a group-by (one per key) in sort_values order
sort_rows(rows) ==
    IF rows = {} THEN <<>>
    ELSE LET r == CHOOSE r \in rows : \A q \in rows \ {r} : row_before(r, q)
         IN  <<r>> \o sort_rows(rows \ {r})

\* df.groupby("Inst_canon", as_index=False).size()
group_sizes(rows) ==
    { <<key, Cardinality({k \in DOMAIN rows : rows[k][4] = key})>> :
        key \in {rows[k][4] : k \in DOMAIN rows} }

\* df["Inst_canon"] = ...apply(canonical); dropna
with_canon(recs) ==
    SelectSeq([k \in DOMAIN recs |-> <<recs[k][1], recs[k][2], recs[k][3], CmuCanon[recs[k][2]]>>],
              LAMBDA row : row[4] # NA)

\* a row <<dept, inst, count>> comes before another in
\* sort_values(["Dept", "Student Count", "Inst_canon"], ascending=[True, False, True])
dept_row_before(a, b) ==
    \/ text_less(a[1], b[1])
    \/ a[1] = b[1] /\ row_before(<<a[2], a[3]>>, <<b[2], b[3]>>)

RECURSIVE sort_dept_rows(_)
\* the rows of the two-key group-by (one per pair) in sort_values order
sort_dept_rows(rows) ==
    IF rows = {} THEN <<>>
    ELSE LET r == CHOOSE r \in rows : \A q \in rows \ {r} : dept_row_before(r, q)
         IN  <<r>> \o sort_dept_rows(rows \ {r})

\* df.groupby(["Dept", "Inst_canon"], as_index=False).size()
dept_group_sizes(rows) ==
    { <<key[1], key[2],
        Cardinality({k \in DOMAIN rows : rows[k][3] = key[1] /\ rows[k][4] = key[2]})>> :
        key \in {<<rows[k][3], rows[k][4]>> : k \in DOMAIN rows} }

RECURSIVE unique(_)
\* Series.unique(): the values in order of first appearance
unique(s) ==
    IF s = <<>> THEN <<>>
    ELSE LET front == unique(SubSeq(s, 1, Len(s) - 1))
         IN  IF \E k \in DOMAIN front : front[k] = s[Len(s)] THEN front
             ELSE Append(front, s[Len(s)])

\* per_dept[per_dept["Dept"] == dept].drop(columns="Dept")
dept_section(rows, dept) ==
    LET own == SelectSeq(rows, LAMBDA r : r[1] = dept)
    IN  [k \in DOMAIN own |-> <<own[k][2], own[k][3]>>]

\* sections 3 and 4 of the script: canonicalise, drop the unresolved rows,
\* build per_dept and overall
Aggregate ==
    /\ prog = "cmu" /\ pc = "parse" /\ idx > Len(lines)
    /\ records # <<>>
    /\ df' = with_canon(records)
    /\ per_dept' = sort_dept_rows(dept_group_sizes(df'))
    /\ table' = sort_rows(group_sizes(df'))
    /\ pc' = "display"
    /\ UNCHANGED <<prog, lines, idx, records, tallyVars, ALLOWED_DEPTS, current_dept, shown>>
    /\ UNCHANGED <<gptVars, canonVars>>

\* section 5: a block per department of per_dept["Dept"].unique(), then the
\* overall table
Display ==
    /\ prog = "cmu" /\ pc = "display"
    /\ LET depts == unique([k \in DOMAIN per_dept |-> per_dept[k][1]])
       IN  shown' = [k \in DOMAIN depts |-> <<depts[k], dept_section(per_dept, depts[k])>>]
    /\ pc' = "done"
    /\ UNCHANGED <<prog, lines, idx, records, table, tallyVars>>
    /\ UNCHANGED <<ALLOWED_DEPTS, current_dept, df, per_dept>>
    /\ UNCHANGED <<gptVars, canonVars>>

NextCmu ==
    \/ ReadClipboard \/ Heading \/ HeadingIgnored \/ RecordBeforeDept
    \/ RecordMalformed \/ RecordAppend \/ NoRecords \/ Aggregate \/ Display

SpecCmu == InitCmu /\ [][NextCmu]_vars

\* both aggregating scripts
InitAggregation == InitStanford \/ InitCmu
NextAggregation == NextStanford \/ NextCmu
SpecAggregation == InitAggregation /\ [][NextAggregation]_vars

-----------------------------------------------------------------------------
(* gpt5_web_search.py: extract_unknown_names, parse_processed_file,        *)
(* merge_processed_files, and the modes of main that call them.            *)

\* lines of a processed file handed to --retry-unknowns: the placeholder in
\* several cases, a resolved school, an empty name, a second separator, no
\* separator
ProcessedLines ==
    { <<"X"," ","|"," ","u","n","k","n","o","w","n">>, <<"Y","|","U","n","k","n","o","w","n"," ">>, <<"X"," ","|"," ","M","I","T">>, <<" ","|"," ","u","n","k","n","o","w","n">>, <<"Z"," ","|"," ","u","n","k","n","o","w","n"," ","|"," ","M","I","T">>, <<"u","n","k","n","o","w","n">> }

\* lines of the base file of a merge: unresolved, empty and resolved schools,
\* an empty name
BaseLines == { <<"X"," ","|"," ","u","n","k","n","o","w","n">>, <<"Y"," ","|">>, <<"X"," ","|"," ","M","I","T">>, <<"Y"," ","|"," ","U","n","k","n","o","w","n">>, <<" ","|"," ","M","I","T">> }

\* lines of the update files
UpdateLines == { <<"X"," ","|"," ","C","M","U">>, <<"X"," ","|"," ","Y","a","l","e">>, <<"X"," ","|"," ","U","n","k","n","o","w","n">>, <<"Y"," ","|"," ","C","M","U">> }

RECURSIVE TotalLen(_)
\* the lines of a list of files, counted
TotalLen(files) == IF files = <<>> THEN 0 ELSE Len(Head(files)) + TotalLen(Tail(files))

\* marked_unknown with the placeholder compared as written
marked_unknown_Exact(name, school) == name # <<>> /\ school = <<"u","n","k","n","o","w","n">>

\* if name and school.lower() == "unknown"
marked_unknown(name, school) == name # <<>> /\ lower(school) = <<"u","n","k","n","o","w","n">>

RECURSIVE extract_from(_, _)
\* the loop of extract_unknown_names, found being its list names
extract_from(rest, found) ==
    IF rest = <<>> THEN found
    ELSE IF ~Contains(Head(rest), "|") THEN extract_from(Tail(rest), found)
    ELSE LET name == split_line(Head(rest))[1]
             school == split_line(Head(rest))[2]
         IN  IF marked_unknown(name, school)
             THEN extract_from(Tail(rest), Append(found, name))
             ELSE extract_from(Tail(rest), found)

\* extract_unknown_names(processed_path), on the file's lines
extract_unknown_names(file) == extract_from(file, <<>>)

RECURSIVE parse_from(_, _)
parse_from(rest, entries) ==
    IF rest = <<>> THEN entries
    ELSE IF ~Contains(Head(rest), "|") THEN parse_from(Tail(rest), entries)
    ELSE IF split_line(Head(rest))[1] # <<>>
         THEN parse_from(Tail(rest), Append(entries, split_line(Head(rest))))
         ELSE parse_from(Tail(rest), entries)

\* parse_processed_file(path), on the file's lines
parse_processed_file(file) == parse_from(file, <<>>)

\* put_update with a name's first update kept
put_update_FirstWins(updates, name, school) ==
    IF name \in DOMAIN updates THEN updates
    ELSE [n \in DOMAIN updates \cup {name} |-> IF n = name THEN school ELSE updates[n]]

\* updates[name] = school
put_update(updates, name, school) ==
    [n \in DOMAIN updates \cup {name} |-> IF n = name THEN school ELSE updates[n]]

RECURSIVE update_from_entries(_, _)
\* for name, school in parse_processed_file(path): a school that is neither
\* empty nor "unknown" is stored
update_from_entries(updates, entries) ==
    IF entries = <<>> THEN updates
    ELSE LET name == Head(entries)[1]
             school == Head(entries)[2]
         IN  update_from_entries(
                 IF school # <<>> /\ lower(school) # <<"u","n","k","n","o","w","n">>
                 THEN put_update(updates, name, school) ELSE updates,
                 Tail(entries))

RECURSIVE update_from_files(_, _)
\* for path in update_paths
update_from_files(updates, files) ==
    IF files = <<>> THEN updates
    ELSE update_from_files(update_from_entries(updates, parse_processed_file(Head(files))),
                           Tail(files))

\* merged_line with an empty school written as it is
merged_line_Blank(updates, name, school0) ==
    LET school == IF (school0 = <<>> \/ lower(school0) = <<"u","n","k","n","o","w","n">>) /\ name \in DOMAIN updates
                  THEN updates[name] ELSE school0
    IN  name \o <<" ","|"," ">> \o school

\* the line merge_processed_files writes for one base entry
merged_line(updates, name, school0) ==
    LET school == IF (school0 = <<>> \/ lower(school0) = <<"u","n","k","n","o","w","n">>) /\ name \in DOMAIN updates
                  THEN updates[name] ELSE school0
    IN  name \o <<" ","|"," ">> \o (IF school # <<>> THEN school ELSE <<"u","n","k","n","o","w","n">>)

\* merge_processed_files(base_path, update_paths), on the files' lines
merge_processed_files(base, files) ==
    LET base_entries == parse_processed_file(base)
        updates == update_from_files([n \in {} |-> <<>>], files)
    IN  [k \in DOMAIN base_entries |->
            merged_line(updates, base_entries[k][1], base_entries[k][2])]

\* lines of a raw names file: names, one with blanks around it, a blank line
NameLines == { <<"X">>, <<" ","Y"," ">>, <<" ">> }

\* what a lookup may return: nothing but a line end, a line with its line
\* end, a line with a blank before it
LookupOutputs == { <<"\n">>, <<"X"," ","|"," ","M","I","T","\n">>, <<" ","Y"," ","|"," ","u","n","k","n","o","w","n">> }

\* the values of --chunk-size: type=int
ChunkSizes == {0 - 1, 0} \cup (1..MaxChunkSize)

RECURSIVE range(_, _, _)
\* range(start, stop, step), step # 0
range(start, stop, step) ==
    IF (step > 0 /\ start < stop) \/ (step < 0 /\ start > stop)
    THEN <<start>> \o range(start + step, stop, step)
    ELSE <<>>

\* slice with the element at b taken too
slice_Inclusive(items, a, b) ==
    SubSeq(items, a + 1, IF b + 1 < Len(items) THEN b + 1 ELSE Len(items))

\* items[a : b] for 0 <= a <= b
slice(items, a, b) == SubSeq(items, a + 1, IF b < Len(items) THEN b ELSE Len(items))

\* list(chunked(items, chunk_size))
chunked(items, size) ==
    LET starts == range(0, Len(items), size)
    IN  [k \in DOMAIN starts |-> slice(items, starts[k], starts[k] + size)]

\* total_chunks = (len(names) + chunk_size - 1) // chunk_size, chunk_size > 0
total_chunks(ns, size) == (Len(ns) + size - 1) \div size

RECURSIVE join_lines(_)
\* "\n".join(merged) + "\n"
join_lines(ls) ==
    IF ls = <<>> THEN <<"\n">>
    ELSE IF Len(ls) = 1 THEN Head(ls) \o <<"\n">>
    ELSE Head(ls) \o <<"\n">> \o join_lines(Tail(ls))

\* the lists of update files handed to --merge-with (nargs="+")
UpdateFileLists ==
    {fs \in SeqsUpTo(SeqsUpTo(UpdateLines, MaxUpdateLines), MaxUpdateFiles) :
        Len(fs) >= 1 /\ TotalLen(fs) <= MaxUpdateLines}

\* main with --merge-with
InitMerge ==
    /\ prog = "merge" /\ pc = "start"
    /\ update_files \in UpdateFileLists
    /\ lines \in SeqsUpTo(BaseLines, MaxBaseLines)
    /\ merged_lines = <<>> /\ unknown_names = <<>>
    /\ retry_unknowns = FALSE /\ chunk_size = DefaultChunkSize /\ ProcIdle
    /\ idx = 1 /\ records = <<>> /\ table = <<>>
    /\ TallyIdle /\ CmuIdle /\ CanonIdle

\* main with --merge-with and --retry-unknowns together
InitBoth ==
    /\ prog = "merge" /\ pc = "start"
    /\ update_files \in UpdateFileLists
    /\ lines \in SeqsUpTo(BaseLines, MaxBaseLines)
    /\ merged_lines = <<>> /\ unknown_names = <<>>
    /\ retry_unknowns = TRUE /\ chunk_size = DefaultChunkSize /\ ProcIdle
    /\ idx = 1 /\ records = <<>> /\ table = <<>>
    /\ TallyIdle /\ CmuIdle /\ CanonIdle

\* main with --retry-unknowns
InitRetry ==
    /\ prog = "retry" /\ pc = "start"
    /\ lines \in SeqsUpTo(ProcessedLines, MaxLines)
    /\ update_files = <<>> /\ merged_lines = <<>> /\ unknown_names = <<>>
    /\ retry_unknowns = TRUE /\ chunk_size \in ChunkSizes /\ ProcIdle
    /\ idx = 1 /\ records = <<>> /\ table = <<>>
    /\ TallyIdle /\ CmuIdle /\ CanonIdle

\* main with neither option: process_file
InitFile ==
    /\ prog = "file" /\ pc = "start"
    /\ lines \in SeqsUpTo(NameLines, MaxLines)
    /\ update_files = <<>> /\ merged_lines = <<>> /\ unknown_names = <<>>
    /\ retry_unknowns = FALSE /\ chunk_size \in ChunkSizes /\ ProcIdle
    /\ idx = 1 /\ records = <<>> /\ table = <<>>
    /\ TallyIdle /\ CmuIdle /\ CanonIdle

\* if args.merge_with: if args.retry_unknowns: raise ValueError
BothModes ==
    /\ prog = "merge" /\ pc = "start" /\ retry_unknowns
    /\ pc' = "error"
    /\ UNCHANGED <<prog, lines, idx, records, table, tallyVars, cmuVars, gptVars, canonVars>>

\* merged = merge_processed_files(args.input_file, args.merge_with), written out
Merge ==
    /\ prog = "merge" /\ pc = "start" /\ ~retry_unknowns
    /\ merged_lines' = merge_processed_files(lines, update_files)
    /\ input_read' = TRUE
    /\ out_file' = join_lines(merged_lines')
    /\ pc' = "merged"
    /\ UNCHANGED <<prog, lines, idx, records, table, tallyVars, cmuVars,
                   update_files, unknown_names, canonVars>>
    /\ UNCHANGED <<retry_unknowns, chunk_size, names, f_buffer, sent, results>>

\* names = extract_unknown_names(args.input_file); no name raises ValueError,
\* else process_names(names, ...)
ExtractUnknown ==
    /\ prog = "retry" /\ pc = "start"
    /\ unknown_names' = extract_unknown_names(lines)
    /\ input_read' = TRUE
    /\ names' = unknown_names'
    /\ pc' = IF unknown_names' = <<>> THEN "error" ELSE "process"
    /\ UNCHANGED <<prog, lines, idx, records, table, tallyVars, cmuVars,
                   update_files, merged_lines, canonVars>>
    /\ UNCHANGED <<retry_unknowns, chunk_size, out_file, f_buffer, sent, results>>

\* process_file: names = [line.strip() for line in ... if line.strip()];
\* process_names(names, ...)
ReadNames ==
    /\ prog = "file" /\ pc = "start"
    /\ names' = SelectSeq([k \in DOMAIN lines |-> strip(lines[k])], LAMBDA n : n # <<>>)
    /\ input_read' = TRUE
    /\ pc' = "process"
    /\ UNCHANGED <<prog, lines, idx, records, table, tallyVars, cmuVars,
                   update_files, merged_lines, unknown_names, canonVars>>
    /\ UNCHANGED <<retry_unknowns, chunk_size, out_file, f_buffer, sent, results>>

\* process_names is running
InProcess == prog \in {"retry", "file"}

\* the frame of the steps of process_names
ProcessFrame ==
    UNCHANGED <<prog, lines, records, table, tallyVars, cmuVars, update_files,
                merged_lines, unknown_names, canonVars, retry_unknowns, chunk_size,
                names, input_read>>

\* if not names: raise ValueError
NoNames ==
    /\ InProcess /\ pc = "process" /\ names = <<>>
    /\ pc' = "error"
    /\ UNCHANGED <<idx, out_file, f_buffer, sent, results>>
    /\ ProcessFrame

\* total_chunks = ... // chunk_size with chunk_size = 0: ZeroDivisionError
ZeroChunkSize ==
    /\ InProcess /\ pc = "process" /\ names # <<>> /\ chunk_size = 0
    /\ pc' = "failed"
    /\ UNCHANGED <<idx, out_file, f_buffer, sent, results>>
    /\ ProcessFrame

\* OpenOutput without the test of the names
OpenOutput_Unchecked ==
    /\ InProcess /\ pc = "process" /\ chunk_size # 0
    /\ out_file' = <<>>
    /\ f_buffer' = <<>>
    /\ idx' = 1
    /\ pc' = "loop"
    /\ UNCHANGED <<sent, results>>
    /\ ProcessFrame

\* with output_path.open("w") as f: the file is created or truncated
OpenOutput ==
    /\ InProcess /\ pc = "process" /\ names # <<>> /\ chunk_size # 0
    /\ out_file' = <<>>
    /\ f_buffer' = <<>>
    /\ idx' = 1
    /\ pc' = "loop"
    /\ UNCHANGED <<sent, results>>
    /\ ProcessFrame

\* for idx, chunk in enumerate(chunked(names, chunk_size), start=1):
\* get_undergrad_schools(chunk, ...) is called
CallLookup ==
    /\ InProcess /\ pc = "loop" /\ idx <= Len(chunked(names, chunk_size))
    /\ sent' = Append(sent, chunked(names, chunk_size)[idx])
    /\ pc' = "lookup"
    /\ UNCHANGED <<idx, out_file, f_buffer, results>>
    /\ ProcessFrame

\* result = get_undergrad_schools(...).strip()
LookupReturns ==
    /\ InProcess /\ pc = "lookup"
    /\ \E output \in LookupOutputs : results' = Append(results, strip(output))
    /\ pc' = "write"
    /\ UNCHANGED <<idx, out_file, f_buffer, sent>>
    /\ ProcessFrame

\* the lookup raises: the with statement closes f, which flushes it
LookupRaises ==
    /\ InProcess /\ pc = "lookup"
    /\ out_file' = out_file \o f_buffer
    /\ f_buffer' = <<>>
    /\ pc' = "failed"
    /\ UNCHANGED <<idx, sent, results>>
    /\ ProcessFrame

\* if result: f.write(result + "\n\n")
Write ==
    /\ InProcess /\ pc = "write"
    /\ IF results[idx] # <<>>
       THEN /\ f_buffer' = f_buffer \o results[idx] \o <<"\n", "\n">>
            /\ pc' = "flush"
            /\ idx' = idx
       ELSE /\ f_buffer' = f_buffer
            /\ pc' = "loop"
            /\ idx' = idx + 1
    /\ UNCHANGED <<out_file, sent, results>>
    /\ ProcessFrame

\* Flush with the text left in the buffer of f
Flush_Deferred ==
    /\ InProcess /\ pc = "flush"
    /\ idx' = idx + 1
    /\ pc' = "loop"
    /\ UNCHANGED <<out_file, f_buffer, sent, results>>
    /\ ProcessFrame

\* f.flush()
Flush ==
    /\ InProcess /\ pc = "flush"
    /\ out_file' = out_file \o f_buffer
    /\ f_buffer' = <<>>
    /\ idx' = idx + 1
    /\ pc' = "loop"
    /\ UNCHANGED <<sent, results>>
    /\ ProcessFrame

\* the iterator is exhausted: f is closed, "Saved results to ..."
Close ==
    /\ InProcess /\ pc = "loop" /\ idx > Len(chunked(names, chunk_size))
    /\ out_file' = out_file \o f_buffer
    /\ f_buffer' = <<>>
    /\ pc' = "saved"
    /\ UNCHANGED <<idx, sent, results>>
    /\ ProcessFrame

\* the process is terminated while f is open: what f holds unflushed is lost
Killed ==
    /\ InProcess /\ pc \in {"loop", "lookup", "write", "flush"}
    /\ f_buffer' = <<>>
    /\ pc' = "killed"
    /\ UNCHANGED <<idx, out_file, sent, results>>
    /\ ProcessFrame

InitGpt == InitMerge \/ InitBoth \/ InitRetry \/ InitFile
NextProcess ==
    \/ NoNames \/ ZeroChunkSize \/ OpenOutput \/ CallLookup \/ LookupReturns
    \/ LookupRaises \/ Write \/ Flush \/ Close \/ Killed
NextGpt == BothModes \/ Merge \/ ExtractUnknown \/ ReadNames \/ NextProcess
SpecGpt == InitGpt /\ [][NextGpt]_vars

\* the merge mode alone
SpecMerge == InitMerge /\ [][Merge]_vars

\* the retry mode up to the call of process_names
SpecRetry == InitRetry /\ [][ExtractUnknown]_vars

\* process_file alone; the script runs on: each statement is executed once
\* the one before it is done, unless the process is terminated
NextFile == ReadNames \/ NextProcess
SpecFile == InitFile /\ [][NextFile]_vars /\ WF_vars(NextFile)

-----------------------------------------------------------------------------
(* The canonicalisers of the three scripts, applied to one cell.           *)

\* raw institution cells: the placeholders in several cases, dash rows,
\* placeholders with a note, abbreviations and full names
Cells ==
    { <<>>, <<"-">>, <<"-","-">>, <<"u","n","k","n","o","w","n">>, <<"U","n","k","n","o","w","n">>, <<"n","/","a">>, <<"N","/","A">>, <<"n","o","t"," ","f","o","u","n","d">>, <<"N","o","t"," ","A","v","a","i","l","a","b","l","e">>,
      <<"u","n","d","e","r","g","r","a","d"," ","i","n","s","t","i","t","u","t","i","o","n"," ","n","o","t"," ","f","o","u","n","d">>, <<"i","n","s","t","i","t","u","t","i","o","n"," ","n","o","t"," ","c","o","n","f","i","r","m","e","d">>,
      <<"u","n","k","n","o","w","n"," ","(","t","b","c",")">>, <<"N","/","A"," ","(","t","b","c",")">>, <<"M","I","T">>, <<"U","C"," ","B","e","r","k","e","l","e","y">>, <<"Y","a","l","e"," ","U","n","i","v","e","r","s","i","t","y",","," ","U","S","A">>,
      <<"T","s","i","n","g","h","u","a"," ","U","n","i","v","e","r","s","i","t","y"," ","&"," ","P","e","k","i","n","g"," ","U","n","i","v","e","r","s","i","t","y">>, <<"U","n","i","v","e","r","s","i","t","y"," ","o","f"," ","M","a","r","y","l","a","n","d",","," ","C","o","l","l","e","g","e"," ","P","a","r","k">>,
      <<"Y","a","l","e"," ","U","n","i","v","e","r","s","i","t","y",","," ","N","e","w"," ","H","a","v","e","n",","," ","U","S","A">>, <<"B","S",","," ","U","C"," ","B","e","r","k","e","l","e","y">>, <<"U","C","B"," ","&"," ","M","I","T">> }

InitCanon ==
    /\ prog = "canon" /\ pc = "start"
    /\ cell \in Cells
    /\ returned = [s \in {} |-> <<>>]
    /\ again = [s \in {} |-> <<>>]
    /\ lines = <<>> /\ idx = 1 /\ records = <<>> /\ table = <<>>
    /\ TallyIdle /\ CmuIdle /\ GptIdle

\* the script's canonicaliser returns result
Return(script, result) ==
    /\ prog = "canon" /\ script \notin DOMAIN returned
    /\ returned' = [s \in DOMAIN returned \cup {script} |->
                       IF s = script THEN result ELSE returned[s]]
    /\ UNCHANGED <<commonVars, tallyVars, cmuVars, gptVars, cell, again>>

\* main_stanford.py: canonicalise_school(school)
CanonStanford == Return("stanford", canonicalise_school(cell))

\* main_cmu.py: canonical(inst)
CanonCmu == Return("cmu", canonical_cmu(cell))

\* main.py: canonical(inst)
CanonMain == Return("main", canonical_main(cell))

\* the script's canonicaliser, called on the resolved value it returned,
\* returns result
ReturnAgain(script, result) ==
    /\ prog = "canon" /\ script \in DOMAIN returned /\ script \notin DOMAIN again
    /\ returned[script] \notin {NA, <<>>}
    /\ again' = [s \in DOMAIN again \cup {script} |->
                    IF s = script THEN result ELSE again[s]]
    /\ UNCHANGED <<commonVars, tallyVars, cmuVars, gptVars, cell, returned>>

\* canonicalise_school(canonicalise_school(school))
AgainStanford ==
    ReturnAgain("stanford", canonicalise_school(IF "stanford" \in DOMAIN returned
                                                THEN returned["stanford"] ELSE <<>>))

\* main_cmu.py: canonical(canonical(inst))
AgainCmu ==
    ReturnAgain("cmu", canonical_cmu(IF "cmu" \in DOMAIN returned THEN returned["cmu"] ELSE <<>>))

\* main.py: canonical(canonical(inst))
AgainMain ==
    ReturnAgain("main", canonical_main(IF "main" \in DOMAIN returned THEN returned["main"] ELSE <<>>))

NextCanon ==
    \/ CanonStanford \/ CanonCmu \/ CanonMain
    \/ AgainStanford \/ AgainCmu \/ AgainMain
SpecCanon == InitCanon /\ [][NextCanon]_vars

-----------------------------------------------------------------------------
(* Properties of tally_schools and save_counts.                            *)

\* what the lines read so far resolve to, stated on the input alone
Read == 1..(idx - 1)
ResolvedAt(i) ==
    /\ Contains(lines[i], "|")
    /\ split_line(lines[i])[2] # <<>>
    /\ StanfordCanon[split_line(lines[i])[2]] # <<>>
NameAt(i) == split_line(lines[i])[1]
CanonAt(i) == StanfordCanon[split_line(lines[i])[2]]
ResolvedRead == {i \in Read : ResolvedAt(i)}
NamesRead == {NameAt(i) : i \in ResolvedRead}
FirstResolved(name) ==
    CHOOSE i \in ResolvedRead :
        NameAt(i) = name /\ \A j \in ResolvedRead : NameAt(j) = name => i <= j
FirstSchool(name) == CanonAt(FirstResolved(name))

\* C1: after any prefix of the lines, seen_names maps each name with a
\* resolved occurrence to the canonical school of its first resolved
\* occurrence, and the count of every school is the number of names whose
\* first resolved occurrence canonicalises to it (so a later line of the same
\* name neither changes the name's school nor adds to a count).
C1_FirstOccurrenceWins ==
    prog = "stanford" =>
        /\ DOMAIN seen_names = NamesRead
        /\ \A n \in NamesRead : seen_names[n] = FirstSchool(n)
        /\ \A j, k \in DOMAIN counter : counter[j][1] = counter[k][1] => j = k
        /\ \A s \in {CanonAt(i) : i \in ResolvedRead} \cup {counter[k][1] : k \in DOMAIN counter} :
              CountOf(counter, s) = Cardinality({n \in NamesRead : FirstSchool(n) = s})

\* a name was read again with its first school, after two names were counted
\* for one school
C1_Witness ==
    /\ prog = "stanford" /\ skipped_duplicates >= 1
    /\ \E k \in DOMAIN counter : counter[k][2] = 2

\* the line the loop is at pairs a seen name with another canonical school
ConflictAhead ==
    /\ AtLine /\ ResolvedAt(idx)
    /\ NameAt(idx) \in NamesRead /\ FirstSchool(NameAt(idx)) # CanonAt(idx)

\* C2: a line with a seen name and a different canonical school appends
\* exactly the tuple (name, first school, conflicting school) to conflicts
\* and leaves the count table and the name index as they are.
C2_ConflictFrame ==
    [][ConflictAhead =>
         /\ conflicts' = Append(conflicts, <<NameAt(idx), FirstSchool(NameAt(idx)), CanonAt(idx)>>)
         /\ counter' = counter
         /\ seen_names' = seen_names]_vars

\* a conflict was recorded for a name whose first school stays counted
C2_Witness ==
    /\ prog = "stanford" /\ conflicts # <<>>
    /\ CountOf(counter, conflicts[1][2]) >= 1
    /\ seen_names[conflicts[1][1]] = conflicts[1][2]

\* C7: no extracted record has an empty name or an empty raw institution.
C7_NoEmptyField ==
    \A k \in DOMAIN records : records[k][1] # <<>> /\ records[k][2] # <<>>

\* the recognised missing-placeholders: empty, a run of dashes, or one of
\* the terms, in any case
PlaceholderTerms == { <<"u","n","k","n","o","w","n">>, <<"n","/","a">>, <<"n","o","t"," ","f","o","u","n","d">>, <<"n","o","t"," ","a","v","a","i","l","a","b","l","e">> }
IsPlaceholder(s) ==
    s = <<>> \/ re_fullmatch(DASHES_PAT, s, FALSE) \/ lower(s) \in PlaceholderTerms

\* C8: every key of a count table is non-empty and no missing-placeholder.
C8_NoPlaceholderKey ==
    /\ \A k \in DOMAIN counter : ~IsPlaceholder(counter[k][1])
    /\ \A k \in DOMAIN table : ~IsPlaceholder(table[k][1])

\* C10: the emitted table is in descending count order, equal counts in
\* ascending order of the name.
C10_TableOrder ==
    pc = "done" =>
        \A i, j \in DOMAIN table :
            i < j => \/ table[i][2] > table[j][2]
                     \/ table[i][2] = table[j][2] /\ text_less(table[i][1], table[j][1])

-----------------------------------------------------------------------------
(* Properties of the aggregation and of main_cmu.py's record extraction.   *)

RECURSIVE SumCounts(_)
\* the sum of the counts of a table
SumCounts(rows) == IF rows = <<>> THEN 0 ELSE Head(rows)[2] + SumCounts(Tail(rows))

\* the records of main_cmu.py whose canonical institution is resolved
ResolvedRecords == {k \in DOMAIN records : CmuCanon[records[k][2]] # NA}

\* C3 as claimed: the counts of a count table add up to the number of input
\* records whose canonical institution is resolved, in tally_schools (after
\* any number of lines) as in the overall table.
C3_SumIsResolvedRecords ==
    /\ prog = "stanford" => SumCounts(counter) = Cardinality(ResolvedRead)
    /\ prog = "cmu" /\ pc = "done" => SumCounts(table) = Cardinality(ResolvedRecords)

\* C3, amended: the counts of main_cmu.py's overall table add up to the
\* number of records whose canonical institution is resolved; the counts of
\* tally_schools, which counts a name once, add up to the number of distinct
\* names with a resolved record, that is the resolved records less the
\* skipped duplicates and the conflicts.
C3_SumIsResolvedNames ==
    /\ prog = "stanford" =>
          /\ SumCounts(counter) = Cardinality(NamesRead)
          /\ SumCounts(counter) =
                Cardinality(ResolvedRead) - skipped_duplicates - Len(conflicts)
    /\ prog = "stanford" /\ pc = "done" => SumCounts(table) = SumCounts(counter)
    /\ prog = "cmu" /\ pc = "done" => SumCounts(table) = Cardinality(ResolvedRecords)

\* tally_schools has read a duplicate and a conflict besides counted names
C3_Witness ==
    /\ prog = "stanford" /\ skipped_duplicates >= 1 /\ conflicts # <<>>
    /\ SumCounts(counter) >= 1

\* the headings of the lines read so far, stated on raw_lines alone
Accepted(j) ==
    /\ ~Contains(lines[j], "|")
    /\ ALLOWED_DEPTS = AllowAll \/ strip(lines[j]) \in ALLOWED_DEPTS
LastHeading(i) ==
    IF \E j \in 1..(i - 1) : Accepted(j)
    THEN CHOOSE j \in 1..(i - 1) : Accepted(j) /\ \A h \in (j + 1)..(i - 1) : ~Accepted(h)
    ELSE 0
DeptAt(i) == IF LastHeading(i) = 0 THEN None ELSE strip(lines[LastHeading(i)])
Emitted(i) ==
    /\ Contains(lines[i], "|") /\ DeptAt(i) # None
    /\ split_line(lines[i])[1] # <<>> /\ split_line(lines[i])[2] # <<>>
EmittedRead == SelectSeq([i \in 1..(idx - 1) |-> i], LAMBDA i : Emitted(i))

\* C6: the records are those of the well-formed student lines that follow an
\* accepted heading, each with the text of the last heading accepted before
\* it; a line without separator is accepted when there is no allow-list or it
\* is, trimmed, a member of it, and otherwise leaves the department as it is.
C6_DeptOfLastAcceptedHeading ==
    prog = "cmu" /\ pc # "read" =>
        /\ current_dept = DeptAt(idx)
        /\ Len(records) = Len(EmittedRead)
        /\ \A k \in DOMAIN records :
              records[k] = <<split_line(lines[EmittedRead[k]])[1],
                             split_line(lines[EmittedRead[k]])[2],
                             DeptAt(EmittedRead[k])>>

\* with an allow-list, a record was emitted after a heading that was ignored,
\* under the department accepted before that heading
C6_Witness ==
    /\ prog = "cmu" /\ pc = "parse" /\ ALLOWED_DEPTS # AllowAll
    /\ records # <<>>
    /\ \E j \in 1..(idx - 1) :
          /\ ~Contains(lines[j], "|") /\ ~Accepted(j)
          /\ LastHeading(j) # 0
          /\ Emitted(j + 1) /\ j + 1 < idx

-----------------------------------------------------------------------------
(* Properties of gpt5_web_search.py's processed-file functions.            *)

RECURSIVE Flatten(_)
\* the lines of the update files, in the order of the files
Flatten(files) == IF files = <<>> THEN <<>> ELSE Head(files) \o Flatten(Tail(files))

IsUnresolved(school) == school = <<>> \/ lower(school) = <<"u","n","k","n","o","w","n">>

\* the update lines that give a name a school, by position in Flatten
Supplies(name) ==
    {j \in DOMAIN Flatten(update_files) :
        LET l == Flatten(update_files)[j]
        IN  /\ Contains(l, "|") /\ split_line(l)[1] = name
            /\ ~IsUnresolved(split_line(l)[2])}
LastSupplied(name) ==
    split_line(Flatten(update_files)[CHOOSE j \in Supplies(name) :
                                        \A h \in Supplies(name) : h <= j])[2]

\* the school the merge is to write for a base entry
MergedSchool(name, school) ==
    IF ~IsUnresolved(school) THEN school
    ELSE IF Supplies(name) # {} THEN LastSupplied(name)
    ELSE IF school = <<>> THEN <<"u","n","k","n","o","w","n">> ELSE school

\* C4: the merge returns one line per base entry, in base order; a resolved
\* base school is kept; an unresolved one takes the school of the last update
\* entry of that name (files in order, each top to bottom) whose school is
\* neither empty nor "unknown", and stays unresolved without one.
C4_MergeLatestResolved ==
    prog = "merge" /\ pc = "merged" =>
        LET base == parse_processed_file(lines)
        IN  /\ Len(merged_lines) = Len(base)
            /\ \A k \in DOMAIN base :
                  merged_lines[k] = base[k][1] \o <<" ","|"," ">> \o MergedSchool(base[k][1], base[k][2])

\* an unresolved base entry took the later of two different schools supplied
C4_Witness ==
    /\ prog = "merge" /\ pc = "merged"
    /\ \E k \in DOMAIN merged_lines :
          /\ IsUnresolved(parse_processed_file(lines)[k][2])
          /\ Cardinality({split_line(Flatten(update_files)[j])[2] :
                             j \in Supplies(parse_processed_file(lines)[k][1])}) = 2
          /\ merged_lines[k] = <<"X"," ","|"," ","Y","a","l","e">>

\* the lines extract_unknown_names is to report, stated on the file alone
MarkedUnknown(line) ==
    /\ Contains(line, "|")
    /\ strip(split_first(line, "|")[1]) # <<>>
    /\ lower(strip(split_first(line, "|")[2])) = <<"u","n","k","n","o","w","n">>

\* C5: extract_unknown_names returns the names, in line order and with
\* repetitions, of exactly the lines with a separator, a non-empty name and a
\* school that is "unknown" in any case.
C5_ExtractsUnknownNames ==
    prog = "retry" /\ pc # "start" =>
        LET marked == SelectSeq(lines, MarkedUnknown)
        IN  /\ Len(unknown_names) = Len(marked)
            /\ \A k \in DOMAIN marked :
                  unknown_names[k] = strip(split_first(marked[k], "|")[1])

\* a name was reported twice, one was reported for a capitalised placeholder,
\* and a resolved line was passed over
C5_Witness ==
    /\ prog = "retry" /\ pc = "process"
    /\ unknown_names = << <<"Y">>, <<"Y">> >>
    /\ \E i \in DOMAIN lines : lines[i] = <<"X"," ","|"," ","M","I","T">>

-----------------------------------------------------------------------------
(* Properties of the canonicalisers.                                       *)

\* the placeholder terms of the missing-value check
MissingTerms ==
    { <<"u","n","k","n","o","w","n">>, <<"n","/","a">>, <<"n","o","t"," ","f","o","u","n","d">>, <<"n","o","t"," ","a","v","a","i","l","a","b","l","e">>,
      <<"u","n","d","e","r","g","r","a","d"," ","i","n","s","t","i","t","u","t","i","o","n"," ","n","o","t"," ","f","o","u","n","d">>, <<"i","n","s","t","i","t","u","t","i","o","n"," ","n","o","t"," ","c","o","n","f","i","r","m","e","d">> }

\* C9: for a cell that is empty, a run of dashes, or one of the placeholder
\* terms in any case, the canonicaliser of every script returns its
\* unresolved value (pd.NA, or the empty text).
C9_PlaceholdersUnresolved ==
    (cell = <<>> \/ re_fullmatch(DASHES_PAT, cell, FALSE) \/ lower(cell) \in MissingTerms)
        => \A s \in DOMAIN returned : returned[s] \in {NA, <<>>}

-----------------------------------------------------------------------------
(* gpt5_web_search.py: configuration errors, batches, chunks.               *)

GptRuns == prog \in {"merge", "retry", "file"}

\* C12: a configuration error is raised before any processing: with both
\* --merge-with and --retry-unknowns main raises before the input file is
\* read or anything is written; retry mode on a file without a name marked
\* unknown raises before any lookup or output; process_names with no name
\* raises before the output file is created or truncated and before any
\* lookup.
C12_ConfigErrorBeforeProcessing ==
    /\ prog = "merge" /\ retry_unknowns =>
          pc \in {"start", "error"} /\ ~input_read /\ out_file = None /\ sent = <<>>
    /\ prog = "retry" /\ SelectSeq(lines, MarkedUnknown) = <<>> =>
          pc \in {"start", "error"} /\ out_file = None /\ sent = <<>>
    /\ InProcess /\ pc # "start" /\ names = <<>> =>
          pc \in {"process", "error"} /\ out_file = None /\ sent = <<>>
    /\ GptRuns /\ pc = "error" => out_file = None /\ sent = <<>>

\* process_file on a file of blank lines only has raised
C12_Witness ==
    /\ prog = "file" /\ pc = "error"
    /\ lines # <<>> /\ names = <<>> /\ input_read

RECURSIVE Written(_)
\* the text of a list of results: each non-empty one and a blank line
Written(rs) ==
    IF rs = <<>> THEN <<>>
    ELSE (IF Head(rs) # <<>> THEN Head(rs) \o <<"\n", "\n">> ELSE <<>>) \o Written(Tail(rs))

Partitions(ns, size) ==
    LET chunks == chunked(ns, size)
    IN  /\ Flatten(chunks) = ns
        /\ \A k \in 1..(Len(chunks) - 1) : Len(chunks[k]) = size
        /\ Len(chunks) >= 1
        /\ Len(chunks[Len(chunks)]) \in 1..size
        /\ Len(chunks) = total_chunks(ns, size)

\* the lookups made are the first chunks, in order, and all of them once the
\* results are saved
SentInOrder ==
    InProcess /\ pc # "start" /\ names # <<>> /\ chunk_size >= 1 =>
        /\ Partitions(names, chunk_size)
        /\ Len(sent) <= total_chunks(names, chunk_size)
        /\ sent = SubSeq(chunked(names, chunk_size), 1, Len(sent))
        /\ pc = "saved" =>
              Len(sent) = total_chunks(names, chunk_size) /\ Flatten(sent) = names

\* process_names has ended, or main has
Terminated == pc \in {"error", "failed", "saved", "killed", "merged"}

\* C16: for a non-empty list of names and chunk_size >= 1 the chunks,
\* concatenated in order, are the list; every chunk but the last has
\* chunk_size names and the last 1..chunk_size; there are total_chunks of
\* them; so process_names sends every name once, in input order, and its
\* loop ends, after total_chunks lookups.
C16_ChunkedPartitions == []SentInOrder /\ <>Terminated

\* three names were sent as a chunk of two and a chunk of one
C16_Witness ==
    /\ InProcess /\ pc = "saved" /\ chunk_size = 2
    /\ Len(names) = 3 /\ Len(sent) = 2
    /\ Len(sent[1]) = 2 /\ Len(sent[2]) = 1

RECURSIVE splitlines(_)
\* str.splitlines() of a text whose only line end is "\n"
splitlines(text) ==
    IF text = <<>> THEN <<>>
    ELSE IF Contains(text, "\n")
         THEN <<split_first(text, "\n")[1]>> \o splitlines(split_first(text, "\n")[2])
         ELSE <<text>>

\* the merged file read back, and the names extract_unknown_names finds in it
MergedRead == splitlines(out_file)
UnknownAfter == extract_unknown_names(MergedRead)
BaseEntries == parse_processed_file(lines)

\* C17, by name: after a merge every name reported unknown is that of a base
\* entry with an unresolved school and without a resolved update; no name
\* with a resolved base school and no name with a resolved update is
\* reported; names of the update files alone are not in the merged output,
\* which has one line per base entry with a non-empty name.
C17_UnknownNamesShrink ==
    prog = "merge" /\ pc = "merged" =>
        /\ \A u \in DOMAIN UnknownAfter :
              /\ \E k \in DOMAIN BaseEntries :
                    BaseEntries[k][1] = UnknownAfter[u] /\ IsUnresolved(BaseEntries[k][2])
              /\ Supplies(UnknownAfter[u]) = {}
        /\ \A k \in DOMAIN BaseEntries : \A u \in DOMAIN UnknownAfter :
              ~IsUnresolved(BaseEntries[k][2]) => UnknownAfter[u] # BaseEntries[k][1]
        /\ \A u \in DOMAIN UnknownAfter : Supplies(UnknownAfter[u]) = {}
        /\ \A m \in DOMAIN merged_lines : \E k \in DOMAIN BaseEntries :
              split_line(merged_lines[m])[1] = BaseEntries[k][1]
        /\ Len(merged_lines) = Len(BaseEntries)

\* the base entries that stay unknown: unresolved and without a resolved update
StaysUnknown(k) ==
    IsUnresolved(BaseEntries[k][2]) /\ Supplies(BaseEntries[k][1]) = {}

\* C17, by entry: the merged output has one line per base entry with a
\* non-empty name, under that entry's name; read back, the line of an entry
\* is marked unknown exactly when the entry's school was unresolved and no
\* update supplied a resolved school for its name, and extract_unknown_names
\* returns the names of those entries, in order.
C17_UnknownEntriesShrink ==
    prog = "merge" /\ pc = "merged" =>
        /\ Len(merged_lines) = Len(BaseEntries)
        /\ parse_processed_file(MergedRead) =
              [k \in DOMAIN BaseEntries |->
                  <<BaseEntries[k][1], MergedSchool(BaseEntries[k][1], BaseEntries[k][2])>>]
        /\ \A k \in DOMAIN BaseEntries :
              MarkedUnknown(merged_lines[k]) <=> StaysUnknown(k)
        /\ UnknownAfter =
              LET kept == SelectSeq([k \in DOMAIN BaseEntries |-> k], StaysUnknown)
              IN  [u \in DOMAIN kept |-> BaseEntries[kept[u]][1]]

\* of two unresolved base entries one was resolved by an update and the
\* other, written without a school, is reported again
C17_Witness ==
    /\ prog = "merge" /\ pc = "merged"
    /\ lines = << <<"X"," ","|"," ","u","n","k","n","o","w","n">>, <<"Y"," ","|">> >>
    /\ Supplies( <<"X">> ) # {}
    /\ UnknownAfter = << <<"Y">> >>

-----------------------------------------------------------------------------
(* main_cmu.py: the per-department display.                                 *)

\* the accepted headings of the clipboard in the order first seen
HeadingsSeen ==
    unique(SelectSeq([j \in DOMAIN lines |-> IF Accepted(j) THEN strip(lines[j]) ELSE None],
                     LAMBDA d : d # None))

\* the departments that have a row to show, in the order first seen
FirstSeenDepts == SelectSeq(HeadingsSeen, LAMBDA d : \E k \in DOMAIN df : df[k][3] = d)

\* the rows of every printed block are in descending count, then ascending name
SectionsSorted ==
    \A s \in DOMAIN shown : \A k \in 1..(Len(shown[s][2]) - 1) :
        row_before(shown[s][2][k], shown[s][2][k + 1])

\* the blocks are those of the departments in the order first seen
SectionsFirstSeen == [s \in DOMAIN shown |-> shown[s][1]] = FirstSeenDepts

\* every (department, institution) pair of the kept rows is shown once, with
\* the number of kept rows of the pair
SectionsCount ==
    /\ \A s \in DOMAIN shown : \A k \in DOMAIN shown[s][2] :
          shown[s][2][k][2] =
              Cardinality({r \in DOMAIN df : df[r][3] = shown[s][1] /\ df[r][4] = shown[s][2][k][1]})
    /\ \A r \in DOMAIN df :
          Cardinality({<<s, k>> \in {<<s, k>> \in (DOMAIN shown) \X (1..Len(df)) :
                                       k \in DOMAIN shown[s][2]} :
                          shown[s][1] = df[r][3] /\ shown[s][2][k][1] = df[r][4]}) = 1

\* C11: in the per-department display the rows of each department are in
\* descending count then ascending institution name, the departments come in
\* the order their headings were first seen in the input, and the count of a
\* (department, institution) pair is the number of its rows whatever that
\* order.
C11_PerDeptDisplay ==
    prog = "cmu" /\ pc = "done" /\ records # <<>> =>
        SectionsSorted /\ SectionsFirstSeen /\ SectionsCount

-----------------------------------------------------------------------------
(* The canonicalisers applied twice, and their alias step.                  *)

\* C14: canonicalising is idempotent: a resolved canonical form, canonicalised
\* again, is returned as it is; it triggers no alias, split, parenthetical
\* removal or locality strip, also when the input had two or more trailing
\* ", Capitalized" qualifiers.
C14_Idempotent == \A s \in DOMAIN again : again[s] = returned[s]

\* the alias table of a script
AliasesOf(s) ==
    IF s = "stanford" THEN ALIASES_stanford ELSE IF s = "cmu" THEN ALIASES_cmu ELSE ALIASES_main

\* the text a script's alias loop is given for the cell
AliasInput(s) ==
    IF s = "stanford"
    THEN strip(split_head(re_sub(Cat(<<Bol, Str(<<"T","h","e">>), Plus(Space)>>), <<>>,
                                 normalise_dashes(strip(cell)), TRUE), ";"))
    ELSE strip(cell)

RECURSIVE FirstAlias(_, _, _)
\* the place in the table of the first pattern found in a text, 0 without one
FirstAlias(aliases, k, text) ==
    IF k > Len(aliases) THEN 0
    ELSE IF re_search(aliases[k][1], text, TRUE) THEN k
    ELSE FirstAlias(aliases, k + 1, text)

\* a text occurs in another
HasText(text, part) ==
    \E i \in 1..(Len(text) - Len(part) + 1) : SubSeq(text, i, i + Len(part) - 1) = part

\* C15: the alias step applies the first pattern of the table that matches
\* and no other; when a pattern P with replacement R matches the input and no
\* earlier pattern does, the canonical form contains R in full: the split,
\* the parenthetical removal and the locality strip do not cut into it, also
\* when the match is not at the start.
C15_AliasSurvives ==
    \A s \in DOMAIN returned \cap {"stanford", "main"} :
        /\ LET j == FirstAlias(AliasesOf(s), 1, AliasInput(s))
           IN  expand(AliasesOf(s), 1, AliasInput(s)) =
                   IF j = 0 THEN AliasInput(s)
                   ELSE re_sub(AliasesOf(s)[j][1], AliasesOf(s)[j][2], AliasInput(s), TRUE)
        /\ LET k == FirstAlias(AliasesOf(s), 1, cell)
           IN  k # 0 => HasText(returned[s], AliasesOf(s)[k][2])

-----------------------------------------------------------------------------
(* Any of the scripts.                                                      *)

Init == InitStanford \/ InitCmu \/ InitGpt \/ InitCanon

Next == NextStanford \/ NextCmu \/ NextGpt \/ NextCanon

Spec == Init /\ [][Next]_vars
====
